---- MODULE Spec2Model ----
(***************************************************************************)
(* A model of the class analysis of @lit-labs/analyzer:                    *)
(*   custom-elements/custom-elements.ts  tag names, classification, JSDoc  *)
(*   javascript/classes.ts               members, heritage, declarations   *)
(*   types.ts                            types from type strings, scratch  *)
(*                                       language service                  *)
(* Syntax nodes are records holding the fields the code reads.  Strings    *)
(* whose characters the code inspects (trim) are sequences of characters.  *)
(***************************************************************************)
EXTENDS Integers, Sequences, FiniteSets, TLC

VARIABLES
  source,       \* the syntax / type-checker information handed to the analyzer
  diagnostics,  \* analyzer.addDiagnostic's collection, in order of appending
  contents,     \* types.ts: the scratch file's text
  contentsId,   \* types.ts: the scratch file's version
  service,      \* the language service's cached program of the scratch file
  held,         \* a value an earlier call returned (a Type, a DeclarationInfo), kept by its caller
  call          \* the last completed call: its operation, arguments and result

vars == <<source, diagnostics, contents, contentsId, service, held, call>>

scratchVars == <<contents, contentsId, service>>

(***************************************************************************)
(* Values                                                                  *)
(***************************************************************************)

\* JavaScript's undefined, and a defined value, as one record shape.
Undefined == [defined |-> FALSE]

Some(v) == [defined |-> TRUE, value |-> v]

NoCall == [op |-> "none"]

\* All sequences over S of length at most n.
SeqsUpTo(S, n) == UNION {[1..k -> S] : k \in 0..n}

\* A JavaScript Map: its entries in insertion order, each key once.
MapHas(map, key) == \E i \in 1..Len(map) : map[i].key = key

MapSet(map, key, value) ==
  IF MapHas(map, key)
  THEN [i \in 1..Len(map) |->
          IF map[i].key = key THEN [key |-> key, value |-> value] ELSE map[i]]
  ELSE Append(map, [key |-> key, value |-> value])

MapGet(map, key) ==
  IF MapHas(map, key)
  THEN Some((CHOOSE e \in {map[i] : i \in 1..Len(map)} : e.key = key).value)
  ELSE Undefined

MapKeys(map) == {map[i].key : i \in 1..Len(map)}

\* String.prototype.trim on a sequence of characters.
RECURSIVE trimStart(_)
trimStart(s) ==
  IF s # <<>> /\ Head(s) = " " THEN trimStart(Tail(s)) ELSE s

RECURSIVE trimEnd(_)
trimEnd(s) ==
  IF s # <<>> /\ s[Len(s)] = " " THEN trimEnd(SubSeq(s, 1, Len(s) - 1)) ELSE s

trim(s) == trimEnd(trimStart(s))

\* String.prototype.toLowerCase on the tag names of the model.
toLowerCase(s) ==
  CASE s = "customElement" -> "customelement"
    [] s = "CustomElement" -> "customelement"
    [] s = "cssProp" -> "cssprop"
    [] s = "cssProperty" -> "cssproperty"
    [] s = "cssPart" -> "csspart"
    [] s = "Slot" -> "slot"
    [] OTHER -> s

(***************************************************************************)
(* custom-elements.ts: getTagName                                          *)
(***************************************************************************)

\* The first tag of the node named customelement in any letter case, or 0.
findCustomElementTag(tags) ==
  LET hits == {i \in 1..Len(tags) : toLowerCase(tags[i].tagName) = "customelement"}
  IN IF hits = {} THEN 0 ELSE CHOOSE i \in hits : \A j \in hits : i <= j

\* The condition of the forEachChild callback for one child statement.
isDefineCallFor(child, node) ==
  /\ child.kind = "ExpressionStatement"
  /\ child.expression.kind = "CallExpression"
  /\ child.expression.callee.kind = "PropertyAccessExpression"
  /\ Len(child.expression.arguments) >= 2
  /\ LET tagNameArg == child.expression.arguments[1]
         ctorArg == child.expression.arguments[2]
         callee == child.expression.callee
     IN /\ callee.expression.kind = "Identifier"
        /\ callee.expression.text = "customElements"
        /\ callee.name.kind = "Identifier"
        /\ callee.name.text = "define"
        /\ tagNameArg.kind \in {"StringLiteral", "NoSubstitutionTemplateLiteral"}
        /\ ctorArg.kind = "Identifier"
        /\ node.name.defined
        /\ ctorArg.text = node.name.value

\* The scan stops at the first define call instead of keeping the last.
RECURSIVE scanDefineCallsFirst(_, _, _)
scanDefineCallsFirst(children, node, tagName) ==
  IF children = <<>> THEN tagName
  ELSE IF isDefineCallFor(Head(children), node)
       THEN Some(Head(children).expression.arguments[1].text)
       ELSE scanDefineCallsFirst(Tail(children), node, tagName)

\* node.parent.forEachChild: every matching child overwrites tagName.
RECURSIVE scanDefineCalls(_, _, _)
scanDefineCalls(children, node, tagName) ==
  IF children = <<>> THEN tagName
  ELSE scanDefineCalls(Tail(children), node,
         IF isDefineCallFor(Head(children), node)
         THEN Some(Head(children).expression.arguments[1].text)
         ELSE tagName)

\* The documentation tag is consulted only after the define calls.
getTagNameDefineFirst(node) ==
  LET scanned == scanDefineCalls(node.parentChildren, node, Undefined)
      jsdocTag == findCustomElementTag(node.jsDocTags)
  IN IF scanned.defined THEN scanned
     ELSE IF jsdocTag # 0 /\ node.jsDocTags[jsdocTag].comment.kind = "string"
          THEN Some(trim(node.jsDocTags[jsdocTag].comment.text))
          ELSE Undefined

getTagName(node) ==
  LET jsdocTag == findCustomElementTag(node.jsDocTags)
  IN IF jsdocTag # 0 /\ node.jsDocTags[jsdocTag].comment.kind = "string"
     THEN Some(trim(node.jsDocTags[jsdocTag].comment.text))
     ELSE scanDefineCalls(node.parentChildren, node, Undefined)

(***************************************************************************)
(* Inputs of getTagName: a class, its documentation tags and the children  *)
(* of its syntactic parent.                                                *)
(***************************************************************************)

MaxTags == 2

MaxSiblings == 2

StringComment(text) == [kind |-> "string", text |-> text]

\* A tag's comment: absent, a plain string, or a NodeArray of comment parts.
TagComments ==
  { [kind |-> "undefined", text |-> <<>>],
    [kind |-> "nodes", text |-> <<>>],
    StringComment(<<"x">>),
    StringComment(<<" ", "y", " ">>) }

JSDocTag(tagName, comment) == [tagName |-> tagName, comment |-> comment]

ElementTags ==
  {JSDocTag(n, c) : n \in {"customElement", "customelement"}, c \in TagComments}
    \cup {JSDocTag("slot", StringComment(<<"x">>))}

Arg(kind, text) == [kind |-> kind, text |-> text]

CallStatement(objKind, objText, nameText, arguments) ==
  [kind |-> "ExpressionStatement",
   expression |->
     [kind |-> "CallExpression",
      callee |-> [kind |-> "PropertyAccessExpression",
                  expression |-> [kind |-> objKind, text |-> objText],
                  name |-> [kind |-> "Identifier", text |-> nameText]],
      arguments |-> arguments]]

\* customElements.define('x', C) and its near misses.
DefineArguments ==
  { <<Arg("StringLiteral", <<"x">>), Arg("Identifier", "C")>>,
    <<Arg("StringLiteral", <<"y">>), Arg("Identifier", "C")>>,
    <<Arg("StringLiteral", <<>>), Arg("Identifier", "C")>>,
    <<Arg("NoSubstitutionTemplateLiteral", <<"y">>), Arg("Identifier", "C")>>,
    <<Arg("StringLiteral", <<"x">>), Arg("Identifier", "D")>>,
    <<Arg("Identifier", <<"x">>), Arg("Identifier", "C")>>,
    <<Arg("StringLiteral", <<"x">>), Arg("StringLiteral", "C")>>,
    <<Arg("StringLiteral", <<"x">>)>>,
    <<Arg("StringLiteral", <<"y">>), Arg("Identifier", "C"), Arg("ObjectLiteralExpression", "")>> }

SiblingStatements ==
  {CallStatement("Identifier", "customElements", "define", a) : a \in DefineArguments}
    \cup
  { CallStatement("Identifier", "customElements", "get",
                  <<Arg("StringLiteral", <<"x">>), Arg("Identifier", "C")>>),
    CallStatement("Identifier", "registry", "define",
                  <<Arg("StringLiteral", <<"x">>), Arg("Identifier", "C")>>),
    CallStatement("PropertyAccessExpression", "customElements", "define",
                  <<Arg("StringLiteral", <<"x">>), Arg("Identifier", "C")>>),
    [kind |-> "ExpressionStatement",
     expression |-> [kind |-> "CallExpression",
                     callee |-> [kind |-> "Identifier", text |-> "define"],
                     arguments |-> <<Arg("StringLiteral", <<"x">>), Arg("Identifier", "C")>>]],
    [kind |-> "ClassDeclaration"] }

TagNameSources ==
  [name : {Some("C"), Undefined},
   jsDocTags : SeqsUpTo(ElementTags, MaxTags),
   parentChildren : SeqsUpTo(SiblingStatements, MaxSiblings)]

InitAnalyzer ==
  /\ diagnostics = <<>>
  /\ contents = <<>>
  /\ contentsId = 0
  /\ service = [version |-> -1, sourceFile |-> Undefined]
  /\ held = Undefined
  /\ call = NoCall

InitTagName ==
  /\ source \in TagNameSources
  /\ InitAnalyzer

GetTagName ==
  /\ call = NoCall
  /\ call' = [op |-> "getTagName", result |-> getTagName(source)]
  /\ UNCHANGED <<source, diagnostics, scratchVars, held>>

NextTagName == GetTagName

SpecTagName == InitTagName /\ [][NextTagName]_vars

\* The claims' reading of "a statement customElements.define('tag', C)".
IsDefineStatementFor(child, className) ==
  /\ child.kind = "ExpressionStatement"
  /\ child.expression.kind = "CallExpression"
  /\ child.expression.callee =
       [kind |-> "PropertyAccessExpression",
        expression |-> [kind |-> "Identifier", text |-> "customElements"],
        name |-> [kind |-> "Identifier", text |-> "define"]]
  /\ Len(child.expression.arguments) >= 2
  /\ child.expression.arguments[1].kind \in {"StringLiteral", "NoSubstitutionTemplateLiteral"}
  /\ child.expression.arguments[2] = Arg("Identifier", className)

DefineStatements(node) ==
  IF node.name.defined
  THEN {i \in 1..Len(node.parentChildren) :
          IsDefineStatementFor(node.parentChildren[i], node.name.value)}
  ELSE {}

DefinedTag(node, i) == node.parentChildren[i].expression.arguments[1].text

CustomElementTags(node) ==
  {i \in 1..Len(node.jsDocTags) : toLowerCase(node.jsDocTags[i].tagName) = "customelement"}

\* C1 as stated: a class without an @customElement tag gets the tag of every
\* customElements.define statement of its scope that names it.
C1_EveryDefineCallReturned ==
  (call.op = "getTagName" /\ CustomElementTags(source) = {})
    => \A i \in DefineStatements(source) : call.result = Some(DefinedTag(source, i))

\* C1 (amended): a class without an @customElement tag gets the tag of the last
\* customElements.define statement of its scope that names it.
C1_LastDefineCallReturned ==
  (call.op = "getTagName" /\ CustomElementTags(source) = {} /\ DefineStatements(source) # {})
    => LET last == CHOOSE i \in DefineStatements(source) :
                     \A j \in DefineStatements(source) : j <= i
       IN call.result = Some(DefinedTag(source, last))

C1_Witness ==
  /\ call.op = "getTagName"
  /\ CustomElementTags(source) = {}
  /\ DefineStatements(source) = {1, 2}
  /\ DefinedTag(source, 1) = <<"x">>
  /\ call.result = Some(<<"y">>)

StringCustomElementTags(node) ==
  {i \in CustomElementTags(node) : node.jsDocTags[i].comment.kind = "string"}

DisagreeingDefines(node, i) ==
  {j \in DefineStatements(node) : DefinedTag(node, j) # trim(node.jsDocTags[i].comment.text)}

\* C2 as stated: a class with an @customElement tag holding a plain string and a
\* define call naming another tag gets the documentation tag's trimmed comment.
C2_AnyStringDocTagWins ==
  call.op = "getTagName"
    => \A i \in StringCustomElementTags(source) :
         DisagreeingDefines(source, i) # {}
           => call.result = Some(trim(source.jsDocTags[i].comment.text))

\* C2 (amended): when the first @customElement tag of the class holds a plain
\* string and a define call names another tag, the result is that first tag's
\* trimmed comment and not the define call's tag.
C2_FirstDocTagWins ==
  (call.op = "getTagName" /\ CustomElementTags(source) # {})
    => LET first == CHOOSE i \in CustomElementTags(source) :
                      \A j \in CustomElementTags(source) : i <= j
       IN (first \in StringCustomElementTags(source) /\ DisagreeingDefines(source, first) # {})
            => /\ call.result = Some(trim(source.jsDocTags[first].comment.text))
               /\ \A j \in DisagreeingDefines(source, first) :
                    call.result # Some(DefinedTag(source, j))

C2_Witness ==
  /\ call.op = "getTagName"
  /\ Len(source.jsDocTags) >= 1
  /\ source.jsDocTags[1] = JSDocTag("customElement", StringComment(<<" ", "y", " ">>))
  /\ \E j \in DefineStatements(source) : DefinedTag(source, j) = <<"x">>
  /\ call.result = Some(<<"y">>)

(***************************************************************************)
(* custom-elements.ts: isCustomElementSubclass.  A program is a function   *)
(* from node ids to declarations; a base type is the list of declarations  *)
(* of its symbol, or Undefined when it has no symbol.  A call that         *)
(* re-enters a call still in progress with the same node never returns:    *)
(* the result is then JavaScript's RangeError (call stack exhausted).      *)
(***************************************************************************)

isClassLike(node) == node.kind \in {"ClassDeclaration", "ClassExpression"}

isHTMLElementInterface(node) ==
  /\ node.kind = "InterfaceDeclaration"
  /\ node.name.defined
  /\ node.name.value = "HTMLElement"

RECURSIVE isCustomElementSubclassIn(_, _, _)
RECURSIVE someDeclaration(_, _, _)
RECURSIVE someBaseType(_, _, _)

\* declarations.some(...) without the recursive isCustomElementSubclass call.
someDeclarationDirectOnly(nodes, declarations, active) ==
  IF \E i \in 1..Len(declarations) : isHTMLElementInterface(nodes[declarations[i]])
  THEN "true"
  ELSE "false"

\* declarations.some(...): in order, stopping at the first true.
someDeclaration(nodes, declarations, active) ==
  IF declarations = <<>> THEN "false"
  ELSE IF isHTMLElementInterface(nodes[Head(declarations)]) THEN "true"
  ELSE LET r == isCustomElementSubclassIn(nodes, Head(declarations), active)
       IN IF r = "false" THEN someDeclaration(nodes, Tail(declarations), active)
          ELSE r

_isCustomElementClassDeclaration(nodes, t, active) ==
  IF ~t.defined THEN "false" ELSE someDeclaration(nodes, t.value, active)

\* for (const t of baseTypes): in order, returning at the first true.
someBaseType(nodes, baseTypes, active) ==
  IF baseTypes = <<>> THEN "false"
  ELSE LET r == _isCustomElementClassDeclaration(nodes, Head(baseTypes), active)
       IN IF r = "false" THEN someBaseType(nodes, Tail(baseTypes), active) ELSE r

\* if (getTagName(node)) instead of !== undefined: an empty tag name is no tag name.
isCustomElementSubclassInNonEmptyTag(nodes, n, active) ==
  IF ~isClassLike(nodes[n]) THEN "false"
  ELSE IF getTagName(nodes[n]).defined /\ getTagName(nodes[n]).value # <<>> THEN "true"
  ELSE IF n \in active THEN "RangeError"
  ELSE someBaseType(nodes, nodes[n].baseTypes, active \cup {n})

isCustomElementSubclassIn(nodes, n, active) ==
  IF ~isClassLike(nodes[n]) THEN "false"
  ELSE IF getTagName(nodes[n]).defined THEN "true"
  ELSE IF n \in active THEN "RangeError"
  ELSE someBaseType(nodes, nodes[n].baseTypes, active \cup {n})

isCustomElementSubclass(nodes, n) == isCustomElementSubclassIn(nodes, n, {})

\* The nodes whose base types isCustomElementSubclass asks the checker for
\* (checker.getTypeAtLocation, checker.getBaseTypes), by the same control flow.
RECURSIVE getBaseTypesCallsIn(_, _, _)
RECURSIVE getBaseTypesCallsOfDeclarations(_, _, _)
RECURSIVE getBaseTypesCallsOfBaseTypes(_, _, _)

getBaseTypesCallsOfDeclarations(nodes, declarations, active) ==
  IF declarations = <<>> THEN {}
  ELSE IF isHTMLElementInterface(nodes[Head(declarations)]) THEN {}
  ELSE getBaseTypesCallsIn(nodes, Head(declarations), active)
         \cup (IF isCustomElementSubclassIn(nodes, Head(declarations), active) = "false"
               THEN getBaseTypesCallsOfDeclarations(nodes, Tail(declarations), active)
               ELSE {})

getBaseTypesCallsOfBaseTypes(nodes, baseTypes, active) ==
  IF baseTypes = <<>> THEN {}
  ELSE (IF Head(baseTypes).defined
        THEN getBaseTypesCallsOfDeclarations(nodes, Head(baseTypes).value, active)
        ELSE {})
         \cup (IF _isCustomElementClassDeclaration(nodes, Head(baseTypes), active) = "false"
               THEN getBaseTypesCallsOfBaseTypes(nodes, Tail(baseTypes), active)
               ELSE {})

getBaseTypesCallsIn(nodes, n, active) ==
  IF ~isClassLike(nodes[n]) THEN {}
  ELSE IF getTagName(nodes[n]).defined THEN {}
  ELSE IF n \in active THEN {n}
  ELSE {n} \cup getBaseTypesCallsOfBaseTypes(nodes, nodes[n].baseTypes, active \cup {n})

getBaseTypesCalls(nodes, n) == getBaseTypesCallsIn(nodes, n, {})

(***************************************************************************)
(* Inputs of isCustomElementSubclass: the ambient declarations of          *)
(* HTMLElement (an interface and a variable, as in lib.dom.d.ts), another  *)
(* interface, and classes 1..MaxClasses.  The checker reports no circular  *)
(* base types, so class i extends classes below i only.                    *)
(***************************************************************************)

MaxClasses == 3

HTMLElementInterface == 0

HTMLElementVariable == -1

OtherInterface == -2

AmbientIds == {HTMLElementInterface, HTMLElementVariable, OtherInterface}

Declaration(kind, name, jsDocTags, parentChildren, baseTypes) ==
  [kind |-> kind, name |-> name, jsDocTags |-> jsDocTags,
   parentChildren |-> parentChildren, baseTypes |-> baseTypes]

AmbientNodes ==
  [i \in AmbientIds |->
     CASE i = HTMLElementInterface ->
            Declaration("InterfaceDeclaration", Some("HTMLElement"), <<>>, <<>>, <<>>)
       [] i = HTMLElementVariable ->
            Declaration("VariableDeclaration", Some("HTMLElement"), <<>>, <<>>, <<>>)
       [] OTHER ->
            Declaration("InterfaceDeclaration", Some("EventTarget"), <<>>, <<>>, <<>>)]

HTMLElementType == Some(<<HTMLElementInterface, HTMLElementVariable>>)

OtherType == Some(<<OtherInterface>>)

ClassType(j) == Some(<<j>>)

\* The base types the checker may report for class i.
BaseTypeLists(i) ==
  LET classTypes == {ClassType(j) : j \in 1..(i - 1)}
      single == {HTMLElementType, OtherType, Undefined} \cup classTypes
  IN {<<>>} \cup {<<t>> : t \in single}
       \cup {<<OtherType, t>> : t \in {HTMLElementType} \cup classTypes}

\* A class with no discoverable tag name, and one registered as 'x'.
TagShapes ==
  { [jsDocTags |-> <<>>, parentChildren |-> <<>>],
    [jsDocTags |-> <<>>,
     parentChildren |->
       <<CallStatement("Identifier", "customElements", "define",
                       <<Arg("StringLiteral", <<"x">>), Arg("Identifier", "C")>>)>>] }

ClassNodes(i) ==
  {Declaration("ClassDeclaration", Some("C"), s.jsDocTags, s.parentChildren, b) :
     s \in TagShapes, b \in BaseTypeLists(i)}

RECURSIVE ProgramsUpTo(_)
ProgramsUpTo(k) ==
  IF k = 0 THEN {AmbientNodes}
  ELSE {[i \in AmbientIds \cup (1..k) |-> IF i = k THEN c ELSE p[i]] :
          p \in ProgramsUpTo(k - 1), c \in ClassNodes(k)}

Programs == ProgramsUpTo(MaxClasses)

InitSubclass ==
  /\ source \in [nodes : Programs, node : AmbientIds \cup (1..MaxClasses)]
  /\ InitAnalyzer

IsCustomElementSubclass ==
  /\ call = NoCall
  /\ call' = [op |-> "isCustomElementSubclass", before |-> diagnostics,
              getBaseTypes |-> getBaseTypesCalls(source.nodes, source.node),
              result |-> isCustomElementSubclass(source.nodes, source.node)]
  /\ UNCHANGED <<source, diagnostics, scratchVars, held>>

NextSubclass == IsCustomElementSubclass

SpecSubclass == InitSubclass /\ [][NextSubclass]_vars

\* The declarations of the symbols of n's base types.
BaseDeclarations(nodes, n) ==
  UNION {{t.value[i] : i \in 1..Len(t.value)} :
           t \in {nodes[n].baseTypes[k] : k \in {j \in 1..Len(nodes[n].baseTypes) :
                                                    nodes[n].baseTypes[j].defined}}}

HasNoTagName(nodes, n) ==
  /\ CustomElementTags(nodes[n]) = {}
  /\ DefineStatements(nodes[n]) = {}

\* n = C_k extends C_(k-1) extends ... extends C_1, whose base type the interface
\* HTMLElement declares; no class of the chain has a tag name.
RECURSIVE ExtendsHTMLElementThrough(_, _, _)
ExtendsHTMLElementThrough(nodes, n, k) ==
  /\ isClassLike(nodes[n])
  /\ HasNoTagName(nodes, n)
  /\ IF k = 1
     THEN \E d \in BaseDeclarations(nodes, n) : isHTMLElementInterface(nodes[d])
     ELSE \E d \in BaseDeclarations(nodes, n) :
            ExtendsHTMLElementThrough(nodes, d, k - 1)

\* A declaration that makes a base type qualify: the interface HTMLElement, or a
\* class that has a tag name or a qualifying base type within k levels.
RECURSIVE Qualifies(_, _, _)
Qualifies(nodes, d, k) ==
  \/ isHTMLElementInterface(nodes[d])
  \/ /\ isClassLike(nodes[d])
     /\ \/ ~HasNoTagName(nodes, d)
        \/ k > 0 /\ \E e \in BaseDeclarations(nodes, d) : Qualifies(nodes, e, k - 1)

\* C3: a class at the end of a chain of N >= 1 classes without tag names that
\* reaches the interface HTMLElement is a custom element; a class-like node
\* without a tag name none of whose base types qualifies is not, and neither is
\* a node that is not class-like.
C3_TransitiveSubclass ==
  call.op = "isCustomElementSubclass"
    => /\ (\E k \in 1..MaxClasses : ExtendsHTMLElementThrough(source.nodes, source.node, k))
            => call.result = "true"
       /\ ( /\ isClassLike(source.nodes[source.node])
            /\ HasNoTagName(source.nodes, source.node)
            /\ \A d \in BaseDeclarations(source.nodes, source.node) :
                 ~Qualifies(source.nodes, d, MaxClasses) )
            => call.result = "false"
       /\ ~isClassLike(source.nodes[source.node]) => call.result = "false"

C3_Witness ==
  /\ call.op = "isCustomElementSubclass"
  /\ ExtendsHTMLElementThrough(source.nodes, source.node, 3)
  /\ call.result = "true"

(***************************************************************************)
(* classes.ts: getClassMembers                                             *)
(***************************************************************************)

\* The node a diagnostic is reported at: what it is and, for a class member, its
\* position in the class body.
NodeRef(kind, index) == [kind |-> kind, index |-> index]

\* createDiagnostic; "Default" is the category or code createDiagnostic gives a
\* diagnostic whose creator names none.
Diagnostic(node, message, category, code) ==
  [node |-> node, message |-> message, category |-> category, code |-> code]

\* utils.ts: the modifier inspection shared by fields and methods.
hasStaticModifier(node) == "static" \in node.modifiers

getPrivacy(node) ==
  IF "private" \in node.modifiers THEN "private"
  ELSE IF "protected" \in node.modifiers THEN "protected"
  ELSE "public"

getMemberInfo(node) ==
  [name |-> node.name.text, static |-> hasStaticModifier(node), privacy |-> getPrivacy(node)]

\* types.ts getTypeForType, as far as a class field shows it: the diagnostics of
\* a type the checker cannot convert to a type node.
getTypeForNodeDiagnostics(node, i) ==
  IF node.typeToTypeNode.defined THEN <<>>
  ELSE <<Diagnostic(NodeRef("member", i), "Could not convert type to type node",
                    "Warning", "Default")>>

EmptyMembers ==
  [fieldMap |-> <<>>, staticFieldMap |-> <<>>, methodMap |-> <<>>,
   staticMethodMap |-> <<>>, diagnostics |-> <<>>]

\* The info of a member is computed from its node: member i of the class body.
ClassMember(info, i) ==
  [name |-> info.name, static |-> info.static, privacy |-> info.privacy, member |-> i]

\* The node.body test dropped: every method signature is recorded.
visitMemberAnyMethod(acc, node, i) ==
  IF node.kind = "MethodDeclaration"
  THEN LET info == getMemberInfo(node)
       IN IF info.static
          THEN [acc EXCEPT !.staticMethodMap = MapSet(@, node.name.text, ClassMember(info, i))]
          ELSE [acc EXCEPT !.methodMap = MapSet(@, node.name.text, ClassMember(info, i))]
  ELSE acc

\* The isIdentifier test dropped: every property declaration becomes a field.
visitMemberAnyProperty(acc, node, i) ==
  IF node.kind = "MethodDeclaration" /\ node.body
  THEN LET info == getMemberInfo(node)
       IN IF info.static
          THEN [acc EXCEPT !.staticMethodMap = MapSet(@, node.name.text, ClassMember(info, i))]
          ELSE [acc EXCEPT !.methodMap = MapSet(@, node.name.text, ClassMember(info, i))]
  ELSE IF node.kind = "PropertyDeclaration"
  THEN LET info == getMemberInfo(node)
           typed == [acc EXCEPT !.diagnostics = @ \o getTypeForNodeDiagnostics(node, i)]
       IN IF info.static
          THEN [typed EXCEPT !.staticFieldMap = MapSet(@, node.name.text, ClassMember(info, i))]
          ELSE [typed EXCEPT !.fieldMap = MapSet(@, node.name.text, ClassMember(info, i))]
  ELSE acc

\* The callback of declaration.members.forEach for member i.
visitMember(acc, node, i) ==
  IF node.kind = "MethodDeclaration" /\ node.body
  THEN LET info == getMemberInfo(node)
       IN IF info.static
          THEN [acc EXCEPT !.staticMethodMap = MapSet(@, node.name.text, ClassMember(info, i))]
          ELSE [acc EXCEPT !.methodMap = MapSet(@, node.name.text, ClassMember(info, i))]
  ELSE IF node.kind = "PropertyDeclaration"
  THEN IF node.name.kind # "Identifier"
       THEN [acc EXCEPT !.diagnostics =
               Append(@, Diagnostic(NodeRef("member", i),
                 "only supports analyzing class properties named with plain identifiers",
                 "Warning", "UNSUPPORTED"))]
       ELSE LET info == getMemberInfo(node)
                typed == [acc EXCEPT !.diagnostics = @ \o getTypeForNodeDiagnostics(node, i)]
            IN IF info.static
               THEN [typed EXCEPT !.staticFieldMap =
                       MapSet(@, node.name.text, ClassMember(info, i))]
               ELSE [typed EXCEPT !.fieldMap =
                       MapSet(@, node.name.text, ClassMember(info, i))]
  ELSE acc

RECURSIVE forEachMember(_, _, _)
forEachMember(acc, members, i) ==
  IF i > Len(members) THEN acc
  ELSE forEachMember(visitMember(acc, members[i], i), members, i + 1)

getClassMembers(declaration) == forEachMember(EmptyMembers, declaration.members, 1)

(***************************************************************************)
(* Inputs of getClassMembers: class bodies of at most MaxMembers members.  *)
(***************************************************************************)

MaxMembers == 3

Member(kind, nameKind, nameText, modifiers, body, typeToTypeNode) ==
  [kind |-> kind, name |-> [kind |-> nameKind, text |-> nameText],
   modifiers |-> modifiers, body |-> body, typeToTypeNode |-> typeToTypeNode]

MethodMembers ==
  {Member("MethodDeclaration", "Identifier", n, m, b, Undefined) :
     n \in {"foo", "bar"}, m \in {{}, {"static"}}, b \in BOOLEAN}

PropertyNames ==
  { [kind |-> "Identifier", text |-> "foo"],
    [kind |-> "Identifier", text |-> "bar"],
    [kind |-> "ComputedPropertyName", text |-> "[foo]"],
    [kind |-> "StringLiteral", text |-> "'foo'"] }

PropertyMembers ==
  {Member("PropertyDeclaration", n.kind, n.text, m, FALSE, Some("TypeNode")) :
     n \in PropertyNames, m \in {{}, {"static"}}}
    \cup
  { Member("PropertyDeclaration", "Identifier", "foo", {"private"}, FALSE, Undefined),
    Member("PropertyDeclaration", "PrivateIdentifier", "#foo", {}, FALSE, Some("TypeNode")) }

OtherMembers ==
  {Member("Constructor", "Identifier", "constructor", {}, TRUE, Undefined)}

ClassMembers == MethodMembers \cup PropertyMembers \cup OtherMembers

\* What the analysis of earlier declarations left in the collection.
PriorDiagnostics ==
  {<<>>, <<Diagnostic(NodeRef("earlier", 0), "Could not convert type to type node",
                      "Warning", "Default")>>}

InitMembers ==
  /\ source \in [members : SeqsUpTo(ClassMembers, MaxMembers)]
  /\ diagnostics \in PriorDiagnostics
  /\ contents = <<>>
  /\ contentsId = 0
  /\ service = [version |-> -1, sourceFile |-> Undefined]
  /\ held = Undefined
  /\ call = NoCall

GetClassMembers ==
  /\ call = NoCall
  /\ LET r == getClassMembers(source)
     IN /\ diagnostics' = diagnostics \o r.diagnostics
        /\ call' = [op |-> "getClassMembers", before |-> diagnostics,
                    result |-> [fieldMap |-> r.fieldMap, staticFieldMap |-> r.staticFieldMap,
                                methodMap |-> r.methodMap,
                                staticMethodMap |-> r.staticMethodMap]]
  /\ UNCHANGED <<source, scratchVars, held>>

NextMembers == GetClassMembers

SpecMembers == InitMembers /\ [][NextMembers]_vars

\* The diagnostics the last call appended.
Appended == SubSeq(diagnostics, Len(call.before) + 1, Len(diagnostics))

MapEntriesUnder(map, key) == {i \in 1..Len(map) : map[i].key = key}

MembersOf(kind) == {i \in 1..Len(source.members) : source.members[i].kind = kind}

Signatures == {i \in MembersOf("MethodDeclaration") : ~source.members[i].body}

Implementations == {i \in MembersOf("MethodDeclaration") : source.members[i].body}

Named(set, name) == {i \in set : source.members[i].name.text = name}

MethodMapFor(i) ==
  IF "static" \in source.members[i].modifiers
  THEN call.result.staticMethodMap
  ELSE call.result.methodMap

\* C4: no entry of methodMap or staticMethodMap comes from a method declaration
\* without a body; a method with overload signatures and one implementation has
\* exactly one entry under its name in the map its implementation's static flag
\* selects, the implementation's.
C4_OverloadSignaturesSkipped ==
  call.op = "getClassMembers"
    => /\ \A map \in {call.result.methodMap, call.result.staticMethodMap} :
            \A e \in 1..Len(map) : map[e].value.member \in Implementations
       /\ \A i \in Implementations :
            LET name == source.members[i].name.text
            IN (Named(Implementations, name) = {i} /\ Named(Signatures, name) # {})
                 => /\ Cardinality(MapEntriesUnder(MethodMapFor(i), name)) = 1
                    /\ MapGet(MethodMapFor(i), name).value.member = i

C4_Witness ==
  /\ call.op = "getClassMembers"
  /\ Named(Signatures, "foo") = {1, 2}
  /\ Named(Implementations, "foo") = {3}
  /\ Len(call.result.methodMap) + Len(call.result.staticMethodMap) = 1

IdentifierProperties ==
  {i \in MembersOf("PropertyDeclaration") : source.members[i].name.kind = "Identifier"}

OtherProperties == MembersOf("PropertyDeclaration") \ IdentifierProperties

AppendedFor(i) == {k \in 1..Len(Appended) : Appended[k].node = NodeRef("member", i)}

FieldEntriesFrom(i) ==
  {e \in 1..Len(call.result.fieldMap) : call.result.fieldMap[e].value.member = i}
    \cup
  {e \in 1..Len(call.result.staticFieldMap) : call.result.staticFieldMap[e].value.member = i}

UnsupportedPropertiesDiagnosed ==
  \A i \in OtherProperties :
    /\ Cardinality(AppendedFor(i)) = 1
    /\ \A k \in AppendedFor(i) :
         Appended[k].category = "Warning" /\ Appended[k].code = "UNSUPPORTED"
    /\ FieldEntriesFrom(i) = {}

FieldCount == Len(call.result.fieldMap) + Len(call.result.staticFieldMap)

\* C5 as stated: each property declaration not named by a plain identifier gets
\* one UNSUPPORTED warning and no field entry, and the two field maps together
\* hold as many entries as there are identifier-named property declarations.
C5_FieldCountIsDeclarationCount ==
  call.op = "getClassMembers"
    => /\ UnsupportedPropertiesDiagnosed
       /\ FieldCount = Cardinality(IdentifierProperties)

\* C5 (amended): each property declaration not named by a plain identifier gets
\* one UNSUPPORTED warning and no field entry, and the two field maps together
\* hold one entry for each distinct pair of static flag and name among the
\* identifier-named property declarations.
C5_FieldCountIsDistinctNameCount ==
  call.op = "getClassMembers"
    => /\ UnsupportedPropertiesDiagnosed
       /\ FieldCount =
            Cardinality({<<"static" \in source.members[i].modifiers,
                           source.members[i].name.text>> : i \in IdentifierProperties})

C5_Witness ==
  /\ call.op = "getClassMembers"
  /\ OtherProperties = {1}
  /\ IdentifierProperties = {2, 3}
  /\ source.members[2].name.text = source.members[3].name.text
  /\ FieldCount = 1
  /\ Len(Appended) = 1

(***************************************************************************)
(* classes.ts: getHeritage, getHeritageFromExpression, getSuperClass       *)
(***************************************************************************)

\* references.ts: the Reference of an identifier, as the checker resolves it;
\* an identifier without a symbol is diagnosed and has no Reference.
getReferenceForIdentifier(expression) ==
  IF expression.symbol.defined
  THEN [reference |-> Some([name |-> expression.text, module |-> expression.symbol.value]),
        diagnostics |-> <<>>]
  ELSE [reference |-> Undefined,
        diagnostics |-> <<Diagnostic(NodeRef("expression", 0), "Could not find symbol",
                                     "Default", "Default")>>]

\* Without the addDiagnostic call: any other expression is dropped silently.
getSuperClassSilent(expression) ==
  IF expression.kind = "Identifier"
  THEN getReferenceForIdentifier(expression)
  ELSE [reference |-> Undefined, diagnostics |-> <<>>]

getSuperClass(expression) ==
  IF expression.kind = "Identifier"
  THEN getReferenceForIdentifier(expression)
  ELSE [reference |-> Undefined,
        diagnostics |->
          <<Diagnostic(NodeRef("expression", 0),
              "Expected expression to be a concrete superclass. Mixins are not yet supported.",
              "Warning", "UNSUPPORTED")>>]

getHeritageFromExpression(expression) ==
  LET superClass == getSuperClass(expression)
  IN [heritage |-> [superClass |-> superClass.reference, mixins |-> <<>>],
      diagnostics |-> superClass.diagnostics]

\* heritageClauses?.find: the first extends clause, or 0.
findExtendsClause(declaration) ==
  IF ~declaration.heritageClauses.defined THEN 0
  ELSE LET clauses == declaration.heritageClauses.value
           hits == {i \in 1..Len(clauses) : clauses[i].token = "ExtendsKeyword"}
       IN IF hits = {} THEN 0 ELSE CHOOSE i \in hits : \A j \in hits : i <= j

EmptyHeritage == [superClass |-> Undefined, mixins |-> <<>>]

\* The length test loosened: the first of several types is taken as superclass.
getHeritageFirstType(declaration) ==
  LET extendsClause == findExtendsClause(declaration)
  IN IF extendsClause # 0 /\ Len(declaration.heritageClauses.value[extendsClause].types) >= 1
     THEN getHeritageFromExpression(
            declaration.heritageClauses.value[extendsClause].types[1].expression)
     ELSE [heritage |-> EmptyHeritage, diagnostics |-> <<>>]

getHeritage(declaration) ==
  LET extendsClause == findExtendsClause(declaration)
  IN IF extendsClause # 0
     THEN IF Len(declaration.heritageClauses.value[extendsClause].types) = 1
          THEN getHeritageFromExpression(
                 declaration.heritageClauses.value[extendsClause].types[1].expression)
          ELSE [heritage |-> EmptyHeritage,
                diagnostics |->
                  <<Diagnostic(NodeRef("extendsClause", 0),
                      "Illegal syntax: did not expect extends clause to have multiple types",
                      "Default", "Default")>>]
     ELSE [heritage |-> EmptyHeritage, diagnostics |-> <<>>]

(***************************************************************************)
(* Inputs of getHeritage: heritage clauses as the parser produces them,    *)
(* also for erroneous source (several extends clauses, several types).     *)
(***************************************************************************)

MaxClauses == 2

MaxExtendsTypes == 2

Expression(kind, text, symbol) ==
  [expression |-> [kind |-> kind, text |-> text, symbol |-> symbol]]

ExtendsTypes ==
  { Expression("Identifier", "Base", Some(Undefined)),
    Expression("Identifier", "Imported", Some(Some("./base.js"))),
    Expression("Identifier", "Missing", Undefined),
    Expression("CallExpression", "Mixin(Base)", Undefined) }

HeritageClauses ==
  {[token |-> "ExtendsKeyword", types |-> t] : t \in SeqsUpTo(ExtendsTypes, MaxExtendsTypes)}
    \cup
  {[token |-> "ImplementsKeyword",
    types |-> <<Expression("Identifier", "Iface", Some(Undefined))>>]}

HeritageSources ==
  [heritageClauses : {Undefined} \cup {Some(c) : c \in SeqsUpTo(HeritageClauses, MaxClauses)}]

InitHeritage ==
  /\ source \in HeritageSources
  /\ diagnostics \in PriorDiagnostics
  /\ contents = <<>>
  /\ contentsId = 0
  /\ service = [version |-> -1, sourceFile |-> Undefined]
  /\ held = Undefined
  /\ call = NoCall

\* addDiagnostic replacing the collection instead of pushing onto it.
GetHeritageOverwriting ==
  /\ call = NoCall
  /\ LET r == getHeritage(source)
     IN /\ diagnostics' = r.diagnostics
        /\ call' = [op |-> "getHeritage", before |-> diagnostics, result |-> r.heritage]
  /\ UNCHANGED <<source, scratchVars, held>>

GetHeritage ==
  /\ call = NoCall
  /\ LET r == getHeritage(source)
     IN /\ diagnostics' = diagnostics \o r.diagnostics
        /\ call' = [op |-> "getHeritage", before |-> diagnostics, result |-> r.heritage]
  /\ UNCHANGED <<source, scratchVars, held>>

NextHeritage == GetHeritage

SpecHeritage == InitHeritage /\ [][NextHeritage]_vars

ExtendsClauses ==
  IF source.heritageClauses.defined
  THEN {i \in 1..Len(source.heritageClauses.value) :
          source.heritageClauses.value[i].token = "ExtendsKeyword"}
  ELSE {}

FirstExtendsClause ==
  source.heritageClauses.value[CHOOSE i \in ExtendsClauses : \A j \in ExtendsClauses : i <= j]

\* C6: an extends clause that lists a number of types other than one (two, say)
\* gives the empty heritage and exactly one diagnostic; a declaration without an
\* extends clause gives the empty heritage and no diagnostic.
C6_MultipleExtendsTypes ==
  call.op = "getHeritage"
    => /\ (ExtendsClauses # {} /\ Len(FirstExtendsClause.types) # 1)
            => /\ call.result = [superClass |-> Undefined, mixins |-> <<>>]
               /\ Len(Appended) = 1
               /\ SubSeq(diagnostics, 1, Len(call.before)) = call.before
       /\ ExtendsClauses = {}
            => /\ call.result = [superClass |-> Undefined, mixins |-> <<>>]
               /\ diagnostics = call.before

C6_Witness ==
  /\ call.op = "getHeritage"
  /\ ExtendsClauses # {}
  /\ Len(FirstExtendsClause.types) = 2
  /\ FirstExtendsClause.types[1].expression.kind = "Identifier"
  /\ Len(Appended) = 1
  /\ ~call.result.superClass.defined

(***************************************************************************)
(* types.ts: the scratch language service, parseType, getTypeForTypeString *)
(* and getReferencesForTypeNode.  A type string is a sequence of tokens.   *)
(***************************************************************************)

TypeNameTokens == {"Foo", "Gone"}

TypeTokens == TypeNameTokens \cup {"<"}

Identifier(text) == [kind |-> "Identifier", text |-> text]

TypeReferenceNode(typeName, typeArguments) ==
  [kind |-> "TypeReference", typeName |-> typeName, typeArguments |-> typeArguments]

KeywordTypeNode(text) == [kind |-> "KeywordType", text |-> text]

\* The parser of the language service, for the type syntax of the model:
\*   Type ::= "string" | Name | Name "<" Type ">"
\* (the type strings of the model leave the keyword and the closing bracket out).
\* Where a type is expected and none stands, the parser makes a type reference
\* with a missing (empty) identifier and goes on; tokens after the type are not
\* part of it.
RECURSIVE parseTypeTokens(_)
parseTypeTokens(tokens) ==
  IF tokens = <<>> THEN [node |-> TypeReferenceNode(Identifier(""), <<>>), rest |-> tokens]
  ELSE IF Head(tokens) = "string"
       THEN [node |-> KeywordTypeNode("string"), rest |-> Tail(tokens)]
  ELSE IF Head(tokens) \in TypeNameTokens
       THEN IF Len(tokens) >= 2 /\ tokens[2] = "<"
            THEN LET argument == parseTypeTokens(SubSeq(tokens, 3, Len(tokens)))
                     closed == argument.rest # <<>> /\ Head(argument.rest) = ">"
                 IN [node |-> TypeReferenceNode(Identifier(Head(tokens)), <<argument.node>>),
                     rest |-> IF closed THEN Tail(argument.rest) ELSE argument.rest]
            ELSE [node |-> TypeReferenceNode(Identifier(Head(tokens)), <<>>),
                  rest |-> Tail(tokens)]
  ELSE [node |-> TypeReferenceNode(Identifier(""), <<>>), rest |-> tokens]

ScratchPrefix == <<"export", "type", "typeToParse", "=">>

\* The source file of a text: its statements.  The scratch text is one type alias.
parseSourceFile(text) ==
  IF Len(text) >= Len(ScratchPrefix) /\ SubSeq(text, 1, Len(ScratchPrefix)) = ScratchPrefix
  THEN [statements |->
          <<[kind |-> "TypeAliasDeclaration",
             type |-> parseTypeTokens(SubSeq(text, Len(ScratchPrefix) + 1, Len(text))).node]>>]
  ELSE [statements |-> <<>>]

\* service.getProgram(): the cached program while the host's script version is
\* the one it was built from, a program parsed from the snapshot otherwise.
getProgram(cached, snapshot, version) ==
  IF cached.version = version
  THEN cached
  ELSE [version |-> version, sourceFile |-> Some(parseSourceFile(snapshot))]

\* ts.forEachChild(sourceFile, ...): the type of the last type alias.
RECURSIVE findTypeAlias(_, _)
findTypeAlias(statements, typeNode) ==
  IF statements = <<>> THEN typeNode
  ELSE findTypeAlias(Tail(statements),
         IF Head(statements).kind = "TypeAliasDeclaration"
         THEN Some(Head(statements).type)
         ELSE typeNode)

\* The version is not advanced: the service keeps answering from its cache.
parseTypeNoVersion(typeString, scratch) ==
  LET text == ScratchPrefix \o typeString
      program == getProgram(scratch.service, text, scratch.contentsId)
  IN [contents |-> text, contentsId |-> scratch.contentsId, service |-> program,
      typeNode |-> IF program.sourceFile.defined
                   THEN findTypeAlias(program.sourceFile.value.statements, Undefined)
                   ELSE Undefined]

\* contents += instead of contents =: the earlier snippets stay in the file.
parseTypeAppending(typeString, scratch) ==
  LET text == scratch.contents \o ScratchPrefix \o typeString
      id == scratch.contentsId + 1
      program == getProgram(scratch.service, text, id)
  IN [contents |-> text, contentsId |-> id, service |-> program,
      typeNode |-> IF program.sourceFile.defined
                   THEN findTypeAlias(program.sourceFile.value.statements, Undefined)
                   ELSE Undefined]

\* parseType: the scratch state after the call, and the type node found.
parseType(typeString, scratch) ==
  LET text == ScratchPrefix \o typeString
      id == scratch.contentsId + 1
      program == getProgram(scratch.service, text, id)
  IN [contents |-> text, contentsId |-> id, service |-> program,
      typeNode |-> IF program.sourceFile.defined
                   THEN findTypeAlias(program.sourceFile.value.statements, Undefined)
                   ELSE Undefined]

(***************************************************************************)
(* types.ts: getSpecifierFromTypeImport.  A path is the sequence of its    *)
(* segments, an absolute one starting with the root "/"; the packages on   *)
(* disk are those of PackageInfos, the root directory being one.           *)
(***************************************************************************)

\* paths.ts resolveExtension: a module path written without its extension.
resolveExtensionOfFile(file) ==
  CASE file = "index" -> "index.js"
    [] file = "x" -> "x.js"
    [] OTHER -> file

resolveExtension(path) ==
  IF path = <<>> THEN path
  ELSE [path EXCEPT ![Len(path)] = resolveExtensionOfFile(@)]

\* analyzer.path.normalize: "." segments dropped, ".." segments resolved.
RECURSIVE normalizeInto(_, _)
normalizeInto(out, rest) ==
  IF rest = <<>> THEN (IF out = <<>> THEN <<".">> ELSE out)
  ELSE IF Head(rest) = "." THEN normalizeInto(out, Tail(rest))
  ELSE IF Head(rest) = ".."
       THEN IF out = <<"/">> THEN normalizeInto(out, Tail(rest))
            ELSE IF out = <<>> \/ out[Len(out)] = ".."
                 THEN normalizeInto(Append(out, ".."), Tail(rest))
                 ELSE normalizeInto(SubSeq(out, 1, Len(out) - 1), Tail(rest))
  ELSE normalizeInto(Append(out, Head(rest)), Tail(rest))

normalize(path) == normalizeInto(<<>>, path)

\* analyzer.path.isAbsolute
isAbsolute(path) == path # <<>> /\ Head(path) = "/"

IsPathPrefix(prefix, path) ==
  Len(prefix) <= Len(path) /\ SubSeq(path, 1, Len(prefix)) = prefix

PackageInfo(rootDir, name, main, module) ==
  [rootDir |-> rootDir, name |-> name, packageJson |-> [main |-> main, module |-> module]]

\* The manifests on disk: module and main, main only, neither, a package
\* nested in another, a main written "./index.js", and the root directory's.
PackageInfos ==
  { PackageInfo(<<"/">>, "root", Undefined, Undefined),
    PackageInfo(<<"/", "a">>, "a", Some(<<"main.js">>), Some(<<"index.js">>)),
    PackageInfo(<<"/", "b">>, "b", Some(<<"index.js">>), Undefined),
    PackageInfo(<<"/", "c">>, "c", Undefined, Undefined),
    PackageInfo(<<"/", "a", "d">>, "d", Some(<<"lib", "x.js">>), Undefined),
    PackageInfo(<<"/", "e">>, "e", Some(<<".", "index.js">>), Undefined) }

\* packages.ts getPackageInfo: the nearest manifest at or above the path.
getPackageInfo(path) ==
  CHOOSE info \in PackageInfos :
    /\ IsPathPrefix(info.rootDir, path)
    /\ \A other \in PackageInfos :
         IsPathPrefix(other.rootDir, path) => Len(other.rootDir) <= Len(info.rootDir)

\* paths.ts absoluteToPackage: the path below the package's root directory.
absoluteToPackage(path, rootDir) == SubSeq(path, Len(rootDir) + 1, Len(path))

\* main ?? module: the main field preferred to the module field.
packageMainPreferMain(packageJson) ==
  IF packageJson.main.defined THEN packageJson.main ELSE packageJson.module

\* const packageMain = module ?? main
packageMain(packageJson) ==
  IF packageJson.module.defined THEN packageJson.module ELSE packageJson.main

\* The path below the package's root, emptied when it is the package's main.
modulePathIn(packageJson, modulePath) ==
  IF packageMain(packageJson).defined /\ modulePath = packageMain(packageJson).value
  THEN <<>>
  ELSE modulePath

\* name + (modulePath ? `/${modulePath}` : '')
packageSpecifier(info, modulePath) ==
  <<info.name>> \o modulePathIn(info.packageJson, modulePath)

absoluteSpecifier(specifier) ==
  packageSpecifier(getPackageInfo(specifier),
                   absoluteToPackage(specifier, getPackageInfo(specifier).rootDir))

getSpecifierFromTypeImport(specifier) ==
  IF isAbsolute(normalize(resolveExtension(specifier)))
  THEN absoluteSpecifier(normalize(resolveExtension(specifier)))
  ELSE normalize(resolveExtension(specifier))

\* references.ts getImportReference: the Reference of a name imported from a specifier.
getImportReference(specifier, name) == [name |-> name, specifier |-> specifier]

\* getRootName: the left-most name of a possibly qualified name.
RECURSIVE getRootName(_)
getRootName(name) ==
  IF ~name.defined THEN ""
  ELSE IF name.value.kind = "QualifiedName" THEN getRootName(Some(name.value.left))
  ELSE name.value.text

\* references.ts: the symbol a name has in scope at a location, and its Reference.
getSymbolForName(name, location) ==
  IF name \in DOMAIN location.scope THEN Some(location.scope[name]) ELSE Undefined

getReferenceForSymbol(symbol, name, location) ==
  Some([name |-> name, module |-> symbol.module])

\* The message `Could not get symbol for '${name}'.`
CouldNotGetSymbol(name) ==
  CASE name = "" -> "Could not get symbol for ''."
    [] name = "Foo" -> "Could not get symbol for 'Foo'."
    [] name = "Gone" -> "Could not get symbol for 'Gone'."
    [] OTHER -> "Could not get symbol for a name."

\* ts.forEachChild: the children of a node, in source order.
ts_forEachChild(node) ==
  CASE node.kind = "TypeReference" -> node.typeArguments
    [] node.kind = "ImportType" -> <<node.argument>> \o node.typeArguments
    [] OTHER -> <<>>

RECURSIVE visit(_, _, _)
RECURSIVE visitEach(_, _, _)

\* visit of getReferencesForTypeNode; acc holds references and diagnostics.
visit(acc, node, location) ==
  IF node.kind = "TypeReference"
  THEN LET name == getRootName(Some(node.typeName))
           symbol == getSymbolForName(name, location)
       IN IF ~symbol.defined
          THEN [acc EXCEPT !.diagnostics =
                  Append(@, Diagnostic(NodeRef("location", location.id),
                                       CouldNotGetSymbol(name), "Default", "Default"))]
          ELSE LET ref == getReferenceForSymbol(symbol.value, name, location)
                   pushed == IF ref.defined
                             THEN [acc EXCEPT !.references = Append(@, ref.value)]
                             ELSE acc
               IN visitEach(pushed, ts_forEachChild(node), location)
  ELSE IF node.kind = "ImportType"
  THEN IF node.argument.kind # "LiteralType"
       THEN [acc EXCEPT !.diagnostics =
               Append(@, Diagnostic(NodeRef("argument", location.id),
                                    "Expected a string literal.", "Default", "Default"))]
       ELSE IF node.argument.literal.kind # "StringLiteral"
       THEN [acc EXCEPT !.diagnostics =
               Append(@, Diagnostic(NodeRef("literal", location.id),
                                    "Expected import specifier to be a string literal",
                                    "Default", "Default"))]
       ELSE visitEach([acc EXCEPT !.references =
                         Append(@, getImportReference(
                                     getSpecifierFromTypeImport(node.argument.literal.text),
                                     getRootName(node.qualifier)))],
                      ts_forEachChild(node), location)
  ELSE visitEach(acc, ts_forEachChild(node), location)

visitEach(acc, children, location) ==
  IF children = <<>> THEN acc
  ELSE visitEach(visit(acc, Head(children), location), Tail(children), location)

getReferencesForTypeNode(typeNode, location) ==
  visit([references |-> <<>>, diagnostics |-> <<>>], typeNode, location)

\* new Type({type, text, getReferences}): the text and what getReferences closes over.
Type(text, typeNode, location) ==
  [text |-> text, typeNode |-> typeNode, location |-> location]

getTypeForTypeString(typeString, location, scratch) ==
  IF typeString.defined
  THEN LET parsed == parseType(typeString.value, scratch)
           after == [contents |-> parsed.contents, contentsId |-> parsed.contentsId,
                     service |-> parsed.service]
       IN IF ~parsed.typeNode.defined
          THEN [type |-> Undefined, scratch |-> after,
                diagnostics |->
                  <<Diagnostic(NodeRef("location", location.id),
                               "Failed to parse type from JSDoc comment.",
                               "Warning", "Default")>>]
          ELSE [type |-> Some(Type(typeString.value, parsed.typeNode.value, location)),
                scratch |-> after, diagnostics |-> <<>>]
  ELSE [type |-> Undefined, scratch |-> scratch, diagnostics |-> <<>>]

(***************************************************************************)
(* Calls of getTypeForTypeString, one after the other on the one scratch   *)
(* file; a caller may keep a Type and read its references later.           *)
(***************************************************************************)

MaxTypeTokens == 2

MaxCalls == 3

MaxDiagnostics == 1

TypeStrings == SeqsUpTo(TypeTokens, MaxTypeTokens)

\* Two places of the analyzed program: Foo is declared in the module of the
\* first and imported into the module of the second; Gone is in scope at neither.
Locations ==
  { [id |-> 1, scope |-> [n \in {"Foo"} |-> [module |-> Undefined]]],
    [id |-> 2, scope |-> [n \in {"Foo"} |-> [module |-> Some("./foo.js")]]] }

Scratch == [contents |-> contents, contentsId |-> contentsId, service |-> service]

InitTypes ==
  /\ source = [program |-> "analyzed"]
  /\ InitAnalyzer

GetTypeForTypeString ==
  /\ contentsId < MaxCalls
  /\ \E typeString \in {Undefined} \cup {Some(t) : t \in TypeStrings}, location \in Locations :
       LET r == getTypeForTypeString(typeString, location, Scratch)
       IN /\ contents' = r.scratch.contents
          /\ contentsId' = r.scratch.contentsId
          /\ service' = r.scratch.service
          /\ diagnostics' = diagnostics \o r.diagnostics
          /\ call' = [op |-> "getTypeForTypeString", before |-> diagnostics,
                      typeString |-> typeString, location |-> location, result |-> r.type]
  /\ UNCHANGED <<source, held>>

\* The caller keeps the Type it was just given.
KeepType ==
  /\ call.op = "getTypeForTypeString"
  /\ call.result.defined
  /\ ~held.defined
  /\ held' = call.result
  /\ UNCHANGED <<source, diagnostics, scratchVars, call>>

\* The caller reads the references of the Type it kept: its getReferences runs.
GetReferences ==
  /\ held.defined
  /\ Len(diagnostics) < MaxDiagnostics
  /\ LET r == getReferencesForTypeNode(held.value.typeNode, held.value.location)
     IN /\ diagnostics' = diagnostics \o r.diagnostics
        /\ call' = [op |-> "getReferences", before |-> diagnostics, result |-> r.references]
  /\ UNCHANGED <<source, scratchVars, held>>

NextTypes == GetTypeForTypeString \/ KeepType \/ GetReferences

SpecTypes == InitTypes /\ [][NextTypes]_vars

\* The type node of a text parsed on its own, whatever the scratch file held.
ParsedAlone(typeString) ==
  findTypeAlias(parseSourceFile(ScratchPrefix \o typeString).statements, Undefined)

ReferencesOf(type) == getReferencesForTypeNode(type.typeNode, type.location).references

\* C7: a call of getTypeForTypeString returns the Type of its own type string and
\* location, whatever calls came before; a second call with the arguments of a
\* Type the caller kept returns the same text and, by value, the same references.
C7_TypeStringResolutionStateless ==
  (call.op = "getTypeForTypeString" /\ call.typeString.defined)
    => /\ call.result.defined
       /\ call.result.value.text = call.typeString.value
       /\ call.result.value.typeNode = ParsedAlone(call.typeString.value).value
       /\ (held.defined /\ held.value.text = call.typeString.value
                        /\ held.value.location = call.location)
            => /\ call.result.value.text = held.value.text
               /\ ReferencesOf(call.result.value) = ReferencesOf(held.value)

C7_Witness ==
  /\ call.op = "getTypeForTypeString"
  /\ contentsId = 3
  /\ held.defined
  /\ call.typeString = Some(held.value.text)
  /\ call.location = held.value.location
  /\ held.value.text = <<"Foo", "<">>
  /\ Len(ReferencesOf(held.value)) = 1
  /\ ReferencesOf(call.result.value) = ReferencesOf(held.value)


(***************************************************************************)
(* custom-elements.ts: getJSDocData.  A tag's comment is a sequence of     *)
(* characters: a name, then optionally blanks and a description.           *)
(***************************************************************************)

RECURSIVE takeWord(_)
takeWord(s) ==
  IF s = <<>> \/ Head(s) = " " THEN <<>> ELSE <<Head(s)>> \o takeWord(Tail(s))

RECURSIVE dropWord(_)
dropWord(s) ==
  IF s = <<>> \/ Head(s) = " " THEN s ELSE dropWord(Tail(s))

\* jsdoc.ts: the name and description of a tag's comment; a tag without a
\* readable comment is diagnosed and has no info.
parseNamedJSDocInfo(tag, i) ==
  IF tag.comment.kind = "string" /\ trim(tag.comment.text) # <<>>
  THEN LET text == trim(tag.comment.text)
       IN [info |-> Some([name |-> takeWord(text), description |-> trim(dropWord(text))]),
           diagnostics |-> <<>>]
  ELSE [info |-> Undefined,
        diagnostics |-> <<Diagnostic(NodeRef("tag", i), "Unexpected JSDoc format",
                                     "Warning", "Default")>>]

\* jsdoc.ts: description, summary and deprecation of a documented node.
parseNodeJSDocInfo(node) ==
  [description |-> node.doc.description, summary |-> node.doc.summary,
   deprecated |-> node.doc.deprecated]

\* events.ts: an @fires tag parsed into an Event and stored under its name.
addEventsToMap(tag, events, i) ==
  LET parsed == parseNamedJSDocInfo(tag, i)
  IN [map |-> IF parsed.info.defined
              THEN MapSet(events, parsed.info.value.name,
                          [name |-> parsed.info.value.name,
                           description |-> parsed.info.value.description,
                           type |-> Undefined])
              ELSE events,
      diagnostics |-> parsed.diagnostics]

\* map.set replaced by a set-if-absent: the first tag of a name is kept.
addNamedJSDocInfoToMapKeepFirst(map, tag, i) ==
  LET parsed == parseNamedJSDocInfo(tag, i)
  IN [map |-> IF parsed.info.defined /\ ~MapHas(map, parsed.info.value.name)
              THEN MapSet(map, parsed.info.value.name, parsed.info.value)
              ELSE map,
      diagnostics |-> parsed.diagnostics]

addNamedJSDocInfoToMap(map, tag, i) ==
  LET parsed == parseNamedJSDocInfo(tag, i)
  IN [map |-> IF parsed.info.defined
              THEN MapSet(map, parsed.info.value.name, parsed.info.value)
              ELSE map,
      diagnostics |-> parsed.diagnostics]

EmptyJSDocData ==
  [events |-> <<>>, slots |-> <<>>, cssProperties |-> <<>>, cssParts |-> <<>>,
   diagnostics |-> <<>>]

\* The switch on tag.tagName.text for tag i.
switchTagName(acc, tag, i) ==
  CASE tag.tagName = "fires" ->
         LET r == addEventsToMap(tag, acc.events, i)
         IN [acc EXCEPT !.events = r.map, !.diagnostics = @ \o r.diagnostics]
    [] tag.tagName = "slot" ->
         LET r == addNamedJSDocInfoToMap(acc.slots, tag, i)
         IN [acc EXCEPT !.slots = r.map, !.diagnostics = @ \o r.diagnostics]
    [] tag.tagName = "cssProp" ->
         LET r == addNamedJSDocInfoToMap(acc.cssProperties, tag, i)
         IN [acc EXCEPT !.cssProperties = r.map, !.diagnostics = @ \o r.diagnostics]
    [] tag.tagName = "cssProperty" ->
         LET r == addNamedJSDocInfoToMap(acc.cssProperties, tag, i)
         IN [acc EXCEPT !.cssProperties = r.map, !.diagnostics = @ \o r.diagnostics]
    [] tag.tagName = "cssPart" ->
         LET r == addNamedJSDocInfoToMap(acc.cssParts, tag, i)
         IN [acc EXCEPT !.cssParts = r.map, !.diagnostics = @ \o r.diagnostics]
    [] OTHER -> acc

\* for (const tag of jsDocTags)
RECURSIVE forEachJSDocTag(_, _, _)
forEachJSDocTag(acc, jsDocTags, i) ==
  IF i > Len(jsDocTags) THEN acc
  ELSE forEachJSDocTag(switchTagName(acc, jsDocTags[i], i), jsDocTags, i + 1)

\* return {...parseNodeJSDocInfo(node, analyzer), events, slots, cssProperties, cssParts}
JSDocData(info, data) ==
  [description |-> info.description, summary |-> info.summary,
   deprecated |-> info.deprecated,
   events |-> data.events, slots |-> data.slots,
   cssProperties |-> data.cssProperties, cssParts |-> data.cssParts,
   diagnostics |-> data.diagnostics]

getJSDocData(node) ==
  JSDocData(parseNodeJSDocInfo(node), forEachJSDocTag(EmptyJSDocData, node.jsDocTags, 1))

(***************************************************************************)
(* Inputs of getJSDocData: the documentation of a class, at most           *)
(* MaxDocTags tags.                                                        *)
(***************************************************************************)

MaxDocTags == 3

DocInfo(description) ==
  [description |-> description, summary |-> Undefined, deprecated |-> Undefined]

NoDoc == DocInfo(Undefined)

ClassDoc == DocInfo(Some("class doc"))

VariableDoc == DocInfo(Some("variable doc"))

\* No comment, a name, the same name with a description, another name.
NamedComments ==
  { [kind |-> "undefined", text |-> <<>>],
    StringComment(<<"a">>),
    StringComment(<<"a", " ", "d">>),
    StringComment(<<"b">>) }

DocTagNames == {"fires", "slot", "cssProp", "cssProperty", "cssPart", "Slot"}

DocTags == {JSDocTag(n, c) : n \in DocTagNames, c \in NamedComments}

InitJSDoc ==
  /\ source \in [jsDocTags : SeqsUpTo(DocTags, MaxDocTags), doc : {ClassDoc}]
  /\ InitAnalyzer

GetJSDocData ==
  /\ call = NoCall
  /\ LET r == getJSDocData(source)
     IN /\ diagnostics' = diagnostics \o r.diagnostics
        /\ call' = [op |-> "getJSDocData", before |-> diagnostics,
                    result |-> [description |-> r.description, summary |-> r.summary,
                                deprecated |-> r.deprecated, events |-> r.events,
                                slots |-> r.slots, cssProperties |-> r.cssProperties,
                                cssParts |-> r.cssParts]]
  /\ UNCHANGED <<source, scratchVars, held>>

NextJSDoc == GetJSDocData

SpecJSDoc == InitJSDoc /\ [][NextJSDoc]_vars

\* The tag names routed to each of the three maps of named infos.
RoutedTo(map) ==
  CASE map = "slots" -> {"slot"}
    [] map = "cssProperties" -> {"cssProp", "cssProperty"}
    [] map = "cssParts" -> {"cssPart"}

NamedMaps == {"slots", "cssProperties", "cssParts"}

InfoOf(tag) == parseNamedJSDocInfo(tag, 0).info

\* The tags of the sequence that are routed to a map and parse to a given name.
TagsFor(jsDocTags, map, name) ==
  {i \in 1..Len(jsDocTags) :
     /\ jsDocTags[i].tagName \in RoutedTo(map)
     /\ InfoOf(jsDocTags[i]).defined
     /\ InfoOf(jsDocTags[i]).value.name = name}

CommentNames == {<<"a">>, <<"b">>}

ResultMap(result, map) ==
  CASE map = "slots" -> result.slots
    [] map = "cssProperties" -> result.cssProperties
    [] map = "cssParts" -> result.cssParts

LastOf(hits) == CHOOSE i \in hits : \A j \in hits : j <= i

\* A tag that no map takes: not one of the five names, or without info.
LeavesMapsUnchanged(tag) ==
  \/ tag.tagName \notin {"fires", "slot", "cssProp", "cssProperty", "cssPart"}
  \/ ~InfoOf(tag).defined

Without(seq, i) == SubSeq(seq, 1, i - 1) \o SubSeq(seq, i + 1, Len(seq))

NamedMapsOf(data) ==
  [slots |-> data.slots, cssProperties |-> data.cssProperties, cssParts |-> data.cssParts]

\* C10: after getJSDocData each of slots, cssProperties and cssParts holds, for
\* each name, the info of the last tag routed to that map with that name (cssProp
\* and cssProperty both go to cssProperties) and nothing else; a tag without
\* info and a tag of another name leave the maps as they are without it.
C10_LastTagWinsPerMap ==
  call.op = "getJSDocData"
    => /\ \A map \in NamedMaps :
            /\ \A name \in CommentNames :
                 LET hits == TagsFor(source.jsDocTags, map, name)
                 IN MapGet(ResultMap(call.result, map), name) =
                      IF hits = {} THEN Undefined
                      ELSE Some(InfoOf(source.jsDocTags[LastOf(hits)]).value)
            /\ MapKeys(ResultMap(call.result, map)) \subseteq CommentNames
       /\ \A i \in 1..Len(source.jsDocTags) :
            LeavesMapsUnchanged(source.jsDocTags[i])
              => NamedMapsOf(call.result) =
                   NamedMapsOf(getJSDocData([source EXCEPT !.jsDocTags = Without(@, i)]))

C10_Witness ==
  /\ call.op = "getJSDocData"
  /\ Len(source.jsDocTags) = 3
  /\ source.jsDocTags[1] = JSDocTag("cssProp", StringComment(<<"a">>))
  /\ source.jsDocTags[2].tagName = "Slot"
  /\ source.jsDocTags[3] = JSDocTag("cssProperty", StringComment(<<"a", " ", "d">>))
  /\ call.result.cssProperties =
       <<[key |-> <<"a">>, value |-> [name |-> <<"a">>, description |-> <<"d">>]]>>
  /\ call.result.slots = <<>>
  /\ call.result.cssParts = <<>>


(***************************************************************************)
(* classes.ts: getClassDeclarationInfo, getClassDeclaration;               *)
(* custom-elements.ts: getCustomElementDeclaration.  A builder returns the *)
(* declaration model and the diagnostics it appended while building it.    *)
(***************************************************************************)

\* utils.ts: modifier inspection.
hasDefaultModifier(declaration) == "default" \in declaration.modifiers

hasExportModifier(declaration) == "export" \in declaration.modifiers

\* The 'default' fallback dropped: only a named class has a name.
getClassDeclarationNameNoDefault(declaration) ==
  [name |-> declaration.name,
   diagnostics |->
     IF declaration.name.defined THEN <<>>
     ELSE <<Diagnostic(NodeRef("declaration", 0),
              "Illegal syntax: a class declaration must either have a name or be a default export",
              "Default", "Default")>>]

getClassDeclarationName(declaration) ==
  LET name == IF declaration.name.defined THEN declaration.name
              ELSE IF hasDefaultModifier(declaration) THEN Some("default")
              ELSE Undefined
  IN [name |-> name,
      diagnostics |->
        IF name.defined THEN <<>>
        ELSE <<Diagnostic(NodeRef("declaration", 0),
                 "Illegal syntax: a class declaration must either have a name or be a default export",
                 "Default", "Default")>>]

\* The DeclarationInfo without its factory, which closes over declaration and name.
getClassDeclarationInfo(declaration) ==
  LET named == getClassDeclarationName(declaration)
  IN [info |-> IF named.name.defined
               THEN Some([name |-> named.name.value, node |-> NodeRef("declaration", 0),
                          isExport |-> hasExportModifier(declaration)])
               ELSE Undefined,
      diagnostics |-> named.diagnostics]

\* lit-element.ts: the verdict of the reactive-element classifier, and its builder.
isLitElementSubclass(declaration) == declaration.litElement

getLitElementDeclaration(declaration) ==
  [declaration |-> [kind |-> "LitElementDeclaration", node |-> NodeRef("declaration", 0)],
   diagnostics |-> <<>>]

\* new CustomElementDeclaration({...}) from the values of its properties.
newCustomElementDeclaration(tagname, name, data, members) ==
  [declaration |->
     [kind |-> "CustomElementDeclaration",
      tagname |-> tagname,
      name |-> name,
      node |-> NodeRef("declaration", 0),
      description |-> data.description, summary |-> data.summary,
      deprecated |-> data.deprecated,
      events |-> data.events, slots |-> data.slots,
      cssProperties |-> data.cssProperties, cssParts |-> data.cssParts,
      fieldMap |-> members.fieldMap, staticFieldMap |-> members.staticFieldMap,
      methodMap |-> members.methodMap, staticMethodMap |-> members.staticMethodMap],
   diagnostics |-> data.diagnostics \o members.diagnostics]

\* getHeritage called while the model is built, instead of handed over as a closure.
getCustomElementDeclarationEagerHeritage(node) ==
  [declaration |-> newCustomElementDeclaration(getTagName(node),
                     IF node.name.defined THEN node.name.value ELSE "",
                     getJSDocData(node), getClassMembers(node)).declaration,
   diagnostics |-> getJSDocData(node).diagnostics \o getHeritage(node).diagnostics
                     \o getClassMembers(node).diagnostics]

getCustomElementDeclaration(node) ==
  newCustomElementDeclaration(getTagName(node),
                              IF node.name.defined THEN node.name.value ELSE "",
                              getJSDocData(node),
                              getClassMembers(node))

\* new ClassDeclaration({...}) from the values of its properties.
newClassDeclaration(name, info, members) ==
  [declaration |->
     [kind |-> "ClassDeclaration",
      name |-> name,
      node |-> NodeRef("declaration", 0),
      description |-> info.description, summary |-> info.summary,
      deprecated |-> info.deprecated,
      fieldMap |-> members.fieldMap, staticFieldMap |-> members.staticFieldMap,
      methodMap |-> members.methodMap, staticMethodMap |-> members.staticMethodMap],
   diagnostics |-> members.diagnostics]

\* docNode ?? declaration
docNodeOr(docNode, declaration) == IF docNode.defined THEN docNode.value ELSE declaration

\* The two tests in the other order: the custom-element builder is tried first.
getClassDeclarationCustomElementFirst(nodes, n, name, docNode) ==
  IF isCustomElementSubclass(nodes, n) = "true" THEN getCustomElementDeclaration(nodes[n])
  ELSE IF isLitElementSubclass(nodes[n]) THEN getLitElementDeclaration(nodes[n])
  ELSE newClassDeclaration(name, parseNodeJSDocInfo(docNodeOr(docNode, nodes[n])),
                           getClassMembers(nodes[n]))

\* getClassDeclaration for node n of the program.
getClassDeclaration(nodes, n, name, docNode) ==
  IF isLitElementSubclass(nodes[n]) THEN getLitElementDeclaration(nodes[n])
  ELSE IF isCustomElementSubclass(nodes, n) = "true" THEN getCustomElementDeclaration(nodes[n])
  ELSE newClassDeclaration(name, parseNodeJSDocInfo(docNodeOr(docNode, nodes[n])),
                           getClassMembers(nodes[n]))

(***************************************************************************)
(* Inputs of getClassDeclarationInfo and getClassDeclaration: the class    *)
(* analysed is the last class of the program and the class before it is    *)
(* the one it may extend; heritage clauses (syntax) and base types         *)
(* (checker) describe the same extends clause.                             *)
(***************************************************************************)

Analysed == MaxClasses

Base == MaxClasses - 1

Extends(types) == [token |-> "ExtendsKeyword", types |-> types]

\* The extends clause of the analysed class, and the base types it has.
HeritageShapes ==
  { [heritageClauses |-> Undefined, baseTypes |-> <<>>],
    [heritageClauses |->
       Some(<<Extends(<<Expression("Identifier", "HTMLElement", Some(Undefined))>>)>>),
     baseTypes |-> <<HTMLElementType>>],
    [heritageClauses |->
       Some(<<Extends(<<Expression("Identifier", "Base", Some(Undefined))>>)>>),
     baseTypes |-> <<ClassType(Base)>>],
    [heritageClauses |->
       Some(<<Extends(<<Expression("CallExpression", "Mixin(Base)", Undefined)>>)>>),
     baseTypes |-> <<ClassType(Base)>>],
    [heritageClauses |->
       Some(<<Extends(<<Expression("Identifier", "Base", Some(Undefined)),
                        Expression("Identifier", "Imported", Some(Some("./base.js")))>>)>>),
     baseTypes |-> <<ClassType(Base)>>],
    [heritageClauses |->
       Some(<<Extends(<<Expression("Identifier", "Missing", Undefined)>>)>>),
     baseTypes |-> <<Undefined>>] }

\* No tag, a customElements.define call, a documented slot, a malformed @slot.
DocumentedShapes ==
  [jsDocTags : {<<>>}, parentChildren : {t.parentChildren : t \in TagShapes}]
    \cup
  [jsDocTags : {<<JSDocTag("slot", StringComment(<<"a">>))>>,
                <<JSDocTag("slot", [kind |-> "undefined", text |-> <<>>])>>},
   parentChildren : {<<>>}]

\* Class bodies: empty, a computed property name, a method and an untypable field.
BodyShapes ==
  { <<>>,
    <<Member("PropertyDeclaration", "ComputedPropertyName", "[foo]", {}, FALSE,
             Some("TypeNode"))>>,
    <<Member("MethodDeclaration", "Identifier", "foo", {}, TRUE, Undefined),
      Member("PropertyDeclaration", "Identifier", "bar", {"private"}, FALSE, Undefined)>> }

ModifierShapes == {{}, {"export"}, {"export", "default"}}

\* The class another class of the program extends.
BaseClasses ==
  { Declaration("ClassDeclaration", Some("Base"), <<>>, <<>>, <<>>),
    Declaration("ClassDeclaration", Some("Base"), <<>>, <<>>, <<HTMLElementType>>),
    Declaration("ClassDeclaration", Some("C"), <<>>,
                <<CallStatement("Identifier", "customElements", "define",
                                <<Arg("StringLiteral", <<"x">>), Arg("Identifier", "C")>>)>>,
                <<>>) }

\* Only a class with a base class can be a subclass of LitElement.
LitElementVerdicts(baseTypes) ==
  IF baseTypes = <<ClassType(Base)>> THEN BOOLEAN ELSE {FALSE}

AnalysedClasses ==
  UNION
    { { [kind |-> "ClassDeclaration", name |-> name, jsDocTags |-> d.jsDocTags,
         parentChildren |-> d.parentChildren, baseTypes |-> h.baseTypes,
         heritageClauses |-> h.heritageClauses, members |-> members,
         modifiers |-> modifiers, doc |-> ClassDoc, litElement |-> litElement] :
          litElement \in LitElementVerdicts(h.baseTypes) } :
        name \in {Some("C"), Undefined}, d \in DocumentedShapes, h \in HeritageShapes,
        members \in BodyShapes, modifiers \in ModifierShapes }

DeclarationPrograms ==
  { [i \in AmbientIds \cup (1..MaxClasses) |->
       IF i \in AmbientIds THEN AmbientNodes[i]
       ELSE IF i = Analysed THEN c
       ELSE IF i = Base THEN b
       ELSE Declaration("ClassDeclaration", Some("Unrelated"), <<>>, <<>>, <<>>)] :
      b \in BaseClasses, c \in AnalysedClasses }

\* const Foo = class C {...}: the variable statement carries the documentation.
DocNodes == {Undefined, Some([doc |-> VariableDoc])}

InitDeclaration ==
  /\ source \in [nodes : DeclarationPrograms, node : {Analysed}]
  /\ diagnostics \in PriorDiagnostics
  /\ contents = <<>>
  /\ contentsId = 0
  /\ service = [version |-> -1, sourceFile |-> Undefined]
  /\ held = Undefined
  /\ call = NoCall

GetClassDeclarationInfo ==
  /\ call = NoCall
  /\ LET r == getClassDeclarationInfo(source.nodes[source.node])
     IN /\ diagnostics' = diagnostics \o r.diagnostics
        /\ held' = r.info
        /\ call' = [op |-> "getClassDeclarationInfo", before |-> diagnostics,
                    result |-> r.info]
  /\ UNCHANGED <<source, scratchVars>>

\* info.factory(): getClassDeclaration(declaration, name, analyzer)
Factory ==
  /\ call.op = "getClassDeclarationInfo"
  /\ held.defined
  /\ LET r == getClassDeclaration(source.nodes, source.node, held.value.name, Undefined)
     IN /\ diagnostics' = diagnostics \o r.diagnostics
        /\ call' = [op |-> "getClassDeclaration", before |-> diagnostics,
                    name |-> held.value.name, docNode |-> Undefined,
                    result |-> r.declaration]
  /\ UNCHANGED <<source, scratchVars, held>>

\* A call from the analysis of a variable statement, with its own name and docNode.
GetClassDeclaration ==
  /\ call = NoCall
  /\ \E name \in {"Foo"}, docNode \in DocNodes :
       LET r == getClassDeclaration(source.nodes, source.node, name, docNode)
       IN /\ diagnostics' = diagnostics \o r.diagnostics
          /\ call' = [op |-> "getClassDeclaration", before |-> diagnostics,
                      name |-> name, docNode |-> docNode, result |-> r.declaration]
  /\ UNCHANGED <<source, scratchVars, held>>

\* Reading the heritage of the model runs the getHeritage closure it was given.
ReadHeritage ==
  /\ call.op = "getClassDeclaration"
  /\ call.result.kind # "LitElementDeclaration"
  /\ LET r == getHeritage(source.nodes[source.node])
     IN /\ diagnostics' = diagnostics \o r.diagnostics
        /\ call' = [op |-> "heritage", before |-> diagnostics,
                    declaration |-> call.result, result |-> r.heritage]
  /\ UNCHANGED <<source, scratchVars, held>>

NextDeclaration ==
  GetClassDeclarationInfo \/ Factory \/ GetClassDeclaration \/ ReadHeritage

SpecDeclaration == InitDeclaration /\ [][NextDeclaration]_vars


\* The class handed to the builders.
AnalysedClass == source.nodes[source.node]

IllegalSyntax ==
  "Illegal syntax: a class declaration must either have a name or be a default export"

DeclarationKinds ==
  {"LitElementDeclaration", "CustomElementDeclaration", "ClassDeclaration"}

\* The names of the members of a kind that the member maps can hold.
ModelledNames(kind, static) ==
  {AnalysedClass.members[i].name.text : i \in
     {j \in 1..Len(AnalysedClass.members) :
        /\ AnalysedClass.members[j].kind = kind
        /\ AnalysedClass.members[j].name.kind = "Identifier"
        /\ (kind = "MethodDeclaration" => AnalysedClass.members[j].body)
        /\ hasStaticModifier(AnalysedClass.members[j]) = static}}

\* C8 as stated: every class declaration handed to getClassDeclarationInfo or
\* getClassDeclaration gets a declaration model or a factory for one, also when
\* a diagnostic is appended.
C8_ModelAlwaysReturned ==
  /\ call.op = "getClassDeclarationInfo" => call.result.defined
  /\ call.op = "getClassDeclaration" => call.result.kind \in DeclarationKinds

\* C8 amended: getClassDeclarationInfo returns a DeclarationInfo (and so a
\* factory) exactly for a class that has a name or is a default export, then
\* appending nothing; for an unnamed class that is no default export it appends
\* the one diagnostic and returns undefined.  Every getClassDeclaration call,
\* through the factory or not, returns a declaration model whatever diagnostics
\* it appends, with the unsupported members left out of its maps; reading the
\* heritage returns a heritage whose superclass is absent when a diagnostic was
\* appended.
C8_ModelReturnedUnlessUnnamed ==
  /\ call.op = "getClassDeclarationInfo"
       => IF AnalysedClass.name.defined \/ "default" \in AnalysedClass.modifiers
          THEN /\ call.result.defined
               /\ call.result.value.name =
                    (IF AnalysedClass.name.defined THEN AnalysedClass.name.value
                     ELSE "default")
               /\ diagnostics = call.before
          ELSE /\ call.result = Undefined
               /\ Len(Appended) = 1
               /\ Appended[1].message = IllegalSyntax
               /\ SubSeq(diagnostics, 1, Len(call.before)) = call.before
  /\ call.op = "getClassDeclaration"
       => /\ call.result.kind \in DeclarationKinds
          /\ SubSeq(diagnostics, 1, Len(call.before)) = call.before
          /\ call.result.kind # "LitElementDeclaration"
               => /\ MapKeys(call.result.fieldMap) = ModelledNames("PropertyDeclaration", FALSE)
                  /\ MapKeys(call.result.staticFieldMap) =
                       ModelledNames("PropertyDeclaration", TRUE)
                  /\ MapKeys(call.result.methodMap) = ModelledNames("MethodDeclaration", FALSE)
                  /\ MapKeys(call.result.staticMethodMap) =
                       ModelledNames("MethodDeclaration", TRUE)
  /\ call.op = "heritage"
       => /\ call.result.mixins = <<>>
          /\ Appended # <<>> => call.result.superClass = Undefined
          /\ SubSeq(diagnostics, 1, Len(call.before)) = call.before

\* An unnamed default export with a computed property name: diagnosed, and built.
C8_Witness ==
  /\ call.op = "getClassDeclaration"
  /\ held.defined
  /\ held.value.name = "default"
  /\ ~AnalysedClass.name.defined
  /\ AnalysedClass.members # <<>>
  /\ AnalysedClass.members[1].name.kind = "ComputedPropertyName"
  /\ Len(Appended) = 1
  /\ call.result.kind = "ClassDeclaration"
  /\ call.result.fieldMap = <<>>

\* The builder getClassDeclaration is to select for the analysed class.
SelectedBuilder ==
  IF isLitElementSubclass(AnalysedClass) THEN "LitElementDeclaration"
  ELSE IF isCustomElementSubclass(source.nodes, source.node) = "true"
       THEN "CustomElementDeclaration"
       ELSE "ClassDeclaration"

\* C9: getClassDeclaration returns the model of the reactive-element builder
\* whenever isLitElementSubclass holds, also when isCustomElementSubclass holds
\* too; otherwise that of the custom-element builder whenever
\* isCustomElementSubclass holds; otherwise the plain ClassDeclaration, which is
\* never built for a declaration satisfying either predicate.
C9_BuilderPriority ==
  call.op = "getClassDeclaration"
    => /\ call.result.kind = SelectedBuilder
       /\ call.result.kind = "ClassDeclaration"
            => /\ ~isLitElementSubclass(AnalysedClass)
               /\ isCustomElementSubclass(source.nodes, source.node) = "false"

\* A subclass of LitElement that is a custom element too.
C9_Witness ==
  /\ call.op = "getClassDeclaration"
  /\ isLitElementSubclass(AnalysedClass)
  /\ isCustomElementSubclass(source.nodes, source.node) = "true"
  /\ call.result.kind = "LitElementDeclaration"


(***************************************************************************)
(* Inputs of getReferencesForTypeNode: type nodes as the checker's         *)
(* typeToTypeNode or the parser builds them, of at most MaxTypeArguments   *)
(* type arguments, each a leaf or a node with one leaf as type argument.   *)
(***************************************************************************)

MaxTypeArguments == 2

QualifiedName(left, right) == [kind |-> "QualifiedName", left |-> left, right |-> right]

LiteralTypeNode(kind, text) ==
  [kind |-> "LiteralType", literal |-> [kind |-> kind, text |-> text]]

ImportTypeNode(argument, qualifier, typeArguments) ==
  [kind |-> "ImportType", argument |-> argument, qualifier |-> qualifier,
   typeArguments |-> typeArguments]

\* Foo, Gone (in no scope) and Foo.Inner
TypeNames ==
  {Identifier("Foo"), Identifier("Gone"), QualifiedName(Identifier("Foo"), Identifier("Inner"))}

\* import('/a/index.js').Bar, import(Foo).Bar and import(1).Bar
ImportArguments ==
  { LiteralTypeNode("StringLiteral", <<"/", "a", "index.js">>),
    TypeReferenceNode(Identifier("Foo"), <<>>),
    LiteralTypeNode("NumericLiteral", <<"1">>) }

WithTypeArguments(argumentLists) ==
  {TypeReferenceNode(n, a) : n \in TypeNames, a \in argumentLists}
    \cup
  {ImportTypeNode(i, Some(Identifier("Bar")), a) : i \in ImportArguments, a \in argumentLists}

LeafTypeNodes ==
  { KeywordTypeNode("string"),
    TypeReferenceNode(Identifier("Foo"), <<>>),
    TypeReferenceNode(Identifier("Gone"), <<>>),
    ImportTypeNode(LiteralTypeNode("StringLiteral", <<".", "x.js">>),
                   Some(Identifier("Baz")), <<>>) }

ArgumentTypeNodes == LeafTypeNodes \cup WithTypeArguments({<<l>> : l \in LeafTypeNodes})

TypeNodes(maxTypeArguments) ==
  {KeywordTypeNode("string")}
    \cup WithTypeArguments(SeqsUpTo(ArgumentTypeNodes, maxTypeArguments))

InitReferences ==
  /\ source \in [typeNode : TypeNodes(MaxTypeArguments), location : Locations]
  /\ diagnostics \in PriorDiagnostics
  /\ contents = <<>>
  /\ contentsId = 0
  /\ service = [version |-> -1, sourceFile |-> Undefined]
  /\ held = Undefined
  /\ call = NoCall

GetReferencesForTypeNode ==
  /\ call = NoCall
  /\ LET r == getReferencesForTypeNode(source.typeNode, source.location)
     IN /\ diagnostics' = diagnostics \o r.diagnostics
        /\ call' = [op |-> "getReferencesForTypeNode", before |-> diagnostics,
                    result |-> r.references]
  /\ UNCHANGED <<source, scratchVars, held>>

NextReferences == GetReferencesForTypeNode

SpecReferences == InitReferences /\ [][NextReferences]_vars

\* A node and all its descendants, depth-first in pre-order.
RECURSIVE Descendants(_)
RECURSIVE DescendantsOfEach(_)
Descendants(node) == <<node>> \o DescendantsOfEach(ts_forEachChild(node))

DescendantsOfEach(children) ==
  IF children = <<>> THEN <<>>
  ELSE Descendants(Head(children)) \o DescendantsOfEach(Tail(children))

\* Whether the name of a type-reference or import-type node resolves.
Resolves(node, location) ==
  \/ /\ node.kind = "TypeReference"
     /\ getSymbolForName(getRootName(Some(node.typeName)), location).defined
  \/ /\ node.kind = "ImportType"
     /\ node.argument.kind = "LiteralType"
     /\ node.argument.literal.kind = "StringLiteral"

\* The Reference of a node whose name resolves.
ReferenceFor(node, location) ==
  IF node.kind = "TypeReference"
  THEN [name |-> getRootName(Some(node.typeName)),
        module |-> location.scope[getRootName(Some(node.typeName))].module]
  ELSE [name |-> getRootName(node.qualifier),
        specifier |-> getSpecifierFromTypeImport(node.argument.literal.text)]

RECURSIVE ReferencesAmong(_, _)
ReferencesAmong(nodes, location) ==
  IF nodes = <<>> THEN <<>>
  ELSE (IF Resolves(Head(nodes), location)
        THEN <<ReferenceFor(Head(nodes), location)>> ELSE <<>>)
         \o ReferencesAmong(Tail(nodes), location)

\* C11: every type-reference or import-type node at any depth of the tree, also
\* under a type reference whose name does not resolve or under a rejected
\* import type, is examined, and a Reference is pushed for it when its name
\* resolves.
C11_EveryDescendantExamined ==
  call.op = "getReferencesForTypeNode"
    => call.result = ReferencesAmong(Descendants(source.typeNode), source.location)


\* The members of the analysed class that member extraction diagnoses.
DiagnosedMembers ==
  {i \in 1..Len(AnalysedClass.members) :
     /\ AnalysedClass.members[i].kind = "PropertyDeclaration"
     /\ \/ AnalysedClass.members[i].name.kind # "Identifier"
        \/ ~AnalysedClass.members[i].typeToTypeNode.defined}

\* The documentation tags of the analysed class that JSDoc extraction diagnoses.
DiagnosedTags ==
  {i \in 1..Len(AnalysedClass.jsDocTags) :
     /\ AnalysedClass.jsDocTags[i].tagName \in
          {"fires", "slot", "cssProp", "cssProperty", "cssPart"}
     /\ ~InfoOf(AnalysedClass.jsDocTags[i]).defined}

AppendedAt(node) == {k \in 1..Len(Appended) : Appended[k].node = node}

\* The extends clause of the analysed class that heritage resolution diagnoses.
HeritageDiagnosed ==
  /\ AnalysedClass.heritageClauses.defined
  /\ LET types == AnalysedClass.heritageClauses.value[1].types
     IN \/ Len(types) # 1
        \/ types[1].expression.kind # "Identifier"
        \/ ~types[1].expression.symbol.defined

\* C12 as stated: when the model is returned heritage resolution, member
\* extraction and JSDoc extraction have all run, so reading the model appends
\* no diagnostic.
C12_NothingAppendedByReading ==
  call.op = "heritage" => diagnostics = call.before

\* C12 amended: when getClassDeclaration / getCustomElementDeclaration returns
\* the model, member extraction and JSDoc extraction have run to completion and
\* their diagnostics are in the collection, but heritage resolution has not run:
\* it runs when the model's heritage is read, and its diagnostic is appended then.
C12_HeritageResolvedOnReading ==
  /\ (call.op = "getClassDeclaration" /\ call.result.kind # "LitElementDeclaration")
       => /\ \A i \in DiagnosedMembers : AppendedAt(NodeRef("member", i)) # {}
          /\ call.result.kind = "CustomElementDeclaration"
               => \A i \in DiagnosedTags : AppendedAt(NodeRef("tag", i)) # {}
          /\ \A k \in 1..Len(Appended) : Appended[k].node.kind \in {"member", "tag"}
  /\ call.op = "heritage"
       => /\ Len(Appended) = (IF HeritageDiagnosed THEN 1 ELSE 0)
          /\ \A k \in 1..Len(Appended) :
               Appended[k].node.kind \in {"extendsClause", "expression"}
          /\ SubSeq(diagnostics, 1, Len(call.before)) = call.before

\* A custom element with a diagnosed member and two extends types, its heritage read.
C12_Witness ==
  /\ call.op = "heritage"
  /\ call.declaration.kind = "CustomElementDeclaration"
  /\ DiagnosedMembers # {}
  /\ AnalysedClass.heritageClauses.defined
  /\ Len(AnalysedClass.heritageClauses.value[1].types) = 2
  /\ Len(call.before) >= 1
  /\ call.before[Len(call.before)].node.kind = "member"
  /\ Len(Appended) = 1
  /\ Appended[1].node.kind = "extendsClause"


\* A step that is a parseType call: getTypeForTypeString with a type string.
ParseTypeStep ==
  /\ call'.op = "getTypeForTypeString"
  /\ call'.typeString.defined
  /\ held' = held

\* C13: over any sequence of parseType calls the version counter goes up by
\* exactly one per call and is changed by nothing else, the scratch text after a
\* call is the one type alias of that call's text, and the program the call read
\* was parsed from that text at the new version, never a cached earlier parse.
C13_VersionAdvancesEveryCall ==
  [][/\ contentsId' \in {contentsId, contentsId + 1}
     /\ ParseTypeStep
          => /\ contentsId' = contentsId + 1
             /\ contents' = ScratchPrefix \o call'.typeString.value
             /\ service'.version = contentsId'
             /\ service.version < service'.version
             /\ service'.sourceFile = Some(parseSourceFile(contents'))
             /\ call'.result.value.typeNode = parseTypeTokens(call'.typeString.value).node
     /\ ~ParseTypeStep => UNCHANGED <<contents, contentsId, service>>]_vars

\* The third call, of a text other than the one a kept Type was parsed from.
C13_Witness ==
  /\ call.op = "getTypeForTypeString"
  /\ contentsId = 3
  /\ service.version = 3
  /\ contents = ScratchPrefix \o <<"Gone">>
  /\ held.defined
  /\ held.value.text = <<"Foo", "<">>


(***************************************************************************)
(* types.ts: getTypeForType.  A checker type is given by what the checker  *)
(* answers about it: its base type, that type's text and its type node.    *)
(***************************************************************************)

\* new Type({type, text, getReferences: () => []})
TypeWithoutReferences(text) == [text |-> text, getReferences |-> "empty"]

\* The Type's getReferences called: a walk of its type node, or the empty array.
callGetReferences(type) ==
  IF "typeNode" \in DOMAIN type
  THEN getReferencesForTypeNode(type.typeNode, type.location)
  ELSE [references |-> <<>>, diagnostics |-> <<>>]

\* The references are extracted while the Type is built, not on request.
getTypeForTypeEagerReferences(type, location) ==
  IF ~type.baseTypeOfLiteralType.typeToTypeNode.defined
  THEN [type |-> TypeWithoutReferences(type.baseTypeOfLiteralType.typeToString),
        diagnostics |->
          <<Diagnostic(NodeRef("location", location.id),
                       "Could not convert type to type node", "Warning", "Default")>>]
  ELSE [type |-> Type(type.baseTypeOfLiteralType.typeToString,
                      type.baseTypeOfLiteralType.typeToTypeNode.value, location),
        diagnostics |->
          getReferencesForTypeNode(type.baseTypeOfLiteralType.typeToTypeNode.value,
                                   location).diagnostics]

getTypeForType(type, location) ==
  IF ~type.baseTypeOfLiteralType.typeToTypeNode.defined
  THEN [type |-> TypeWithoutReferences(type.baseTypeOfLiteralType.typeToString),
        diagnostics |->
          <<Diagnostic(NodeRef("location", location.id),
                       "Could not convert type to type node", "Warning", "Default")>>]
  ELSE [type |-> Type(type.baseTypeOfLiteralType.typeToString,
                      type.baseTypeOfLiteralType.typeToTypeNode.value, location),
        diagnostics |-> <<>>]

(***************************************************************************)
(* Calls of getTypeForType, and of the getReferences of the Type returned, *)
(* at most MaxInvocations times.                                           *)
(***************************************************************************)

MaxInvocations == 2

CheckerTypes ==
  {[baseTypeOfLiteralType |-> [typeToString |-> "string", typeToTypeNode |-> n]] :
     n \in {Undefined} \cup {Some(t) : t \in ArgumentTypeNodes}}

InitTypeForType ==
  /\ source \in [type : CheckerTypes, location : Locations]
  /\ diagnostics \in PriorDiagnostics
  /\ contents = <<>>
  /\ contentsId = 0
  /\ service = [version |-> -1, sourceFile |-> Undefined]
  /\ held = Undefined
  /\ call = NoCall

GetTypeForType ==
  /\ call = NoCall
  /\ LET r == getTypeForType(source.type, source.location)
     IN /\ diagnostics' = diagnostics \o r.diagnostics
        /\ held' = Some(r.type)
        /\ call' = [op |-> "getTypeForType", before |-> diagnostics, result |-> r.type]
  /\ UNCHANGED <<source, scratchVars>>

Invocations == IF call.op = "Type.getReferences" THEN call.invocation ELSE 0

\* The getReferences of the Type returned is called once more.
InvokeGetReferences ==
  /\ held.defined
  /\ Invocations < MaxInvocations
  /\ LET r == callGetReferences(held.value)
     IN /\ diagnostics' = diagnostics \o r.diagnostics
        /\ call' = [op |-> "Type.getReferences", before |-> diagnostics,
                    invocation |-> Invocations + 1, result |-> r.references]
  /\ UNCHANGED <<source, scratchVars, held>>

NextTypeForType == GetTypeForType \/ InvokeGetReferences

SpecTypeForType == InitTypeForType /\ [][NextTypeForType]_vars

Converted == source.type.baseTypeOfLiteralType.typeToTypeNode

\* C14: when the checker gives no type node, getTypeForType appends exactly one
\* warning and every call of the Type's getReferences yields the empty sequence
\* and appends nothing; when it gives one, nothing is appended at construction
\* and the references are extracted, with their diagnostics, only when asked for.
C14_UnconvertibleTypeHasNoReferences ==
  /\ call.op = "getTypeForType"
       => IF Converted.defined
          THEN diagnostics = call.before
          ELSE /\ Len(Appended) = 1
               /\ Appended[1].category = "Warning"
               /\ Appended[1].message = "Could not convert type to type node"
               /\ SubSeq(diagnostics, 1, Len(call.before)) = call.before
  /\ call.op = "Type.getReferences"
       => IF Converted.defined
          THEN /\ call.result =
                    getReferencesForTypeNode(Converted.value, source.location).references
               /\ Appended =
                    getReferencesForTypeNode(Converted.value, source.location).diagnostics
          ELSE /\ call.result = <<>>
               /\ diagnostics = call.before

\* The second call of getReferences of a Type built without a type node.
C14_Witness ==
  /\ call.op = "Type.getReferences"
  /\ call.invocation = 2
  /\ ~Converted.defined
  /\ call.result = <<>>
  /\ Len(diagnostics) = 2
  /\ diagnostics[2].message = "Could not convert type to type node"


(***************************************************************************)
(* Inputs of isCustomElementSubclass for a class with a tag name: the last *)
(* class of the program, documented or registered in one of TaggedShapes.  *)
(***************************************************************************)

DefineCall(tagName) ==
  CallStatement("Identifier", "customElements", "define",
                <<Arg("StringLiteral", tagName), Arg("Identifier", "C")>>)

\* No tag name; @customElement with and without a string comment;
\* customElements.define('x', C) and customElements.define('', C).
TaggedShapes ==
  { [jsDocTags |-> <<>>, parentChildren |-> <<>>],
    [jsDocTags |-> <<JSDocTag("customElement", StringComment(<<"x">>))>>,
     parentChildren |-> <<>>],
    [jsDocTags |-> <<JSDocTag("customElement", [kind |-> "undefined", text |-> <<>>])>>,
     parentChildren |-> <<>>],
    [jsDocTags |-> <<>>, parentChildren |-> <<DefineCall(<<"x">>)>>],
    [jsDocTags |-> <<>>, parentChildren |-> <<DefineCall(<<>>)>>] }

TaggedPrograms(k) ==
  { [i \in AmbientIds \cup (1..k) |->
       IF i = k
       THEN Declaration("ClassDeclaration", Some("C"), t.jsDocTags, t.parentChildren, b)
       ELSE p[i]] :
      p \in ProgramsUpTo(k - 1), t \in TaggedShapes, b \in BaseTypeLists(k) }

InitTagged ==
  /\ source \in [nodes : TaggedPrograms(MaxClasses), node : {MaxClasses, HTMLElementInterface}]
  /\ diagnostics \in PriorDiagnostics
  /\ contents = <<>>
  /\ contentsId = 0
  /\ service = [version |-> -1, sourceFile |-> Undefined]
  /\ held = Undefined
  /\ call = NoCall

SpecTagged == InitTagged /\ [][NextSubclass]_vars

\* C15: a class-like node for which getTagName returns a value, the empty
\* string included, is a custom element whatever its base types are, and the
\* checker is asked for no base types; isCustomElementSubclass appends no
\* diagnostic and leaves the shared state as it was, for every input.
C15_TagNameShortCircuits ==
  call.op = "isCustomElementSubclass"
    => /\ (isClassLike(source.nodes[source.node])
             /\ getTagName(source.nodes[source.node]).defined)
            => /\ call.result = "true"
               /\ call.getBaseTypes = {}
       /\ diagnostics = call.before
       /\ contents = <<>>
       /\ contentsId = 0
       /\ service = [version |-> -1, sourceFile |-> Undefined]
       /\ held = Undefined

\* customElements.define('', C) on a class whose only base type is no element.
C15_Witness ==
  /\ call.op = "isCustomElementSubclass"
  /\ source.node = MaxClasses
  /\ source.nodes[source.node].parentChildren = <<DefineCall(<<>>)>>
  /\ source.nodes[source.node].baseTypes = <<OtherType>>
  /\ getTagName(source.nodes[source.node]) = Some(<<>>)
  /\ call.result = "true"
  /\ call.getBaseTypes = {}


\* Whether a node is a type reference whose root name has no symbol in scope.
Unresolved(node, location) ==
  node.kind = "TypeReference" /\ ~Resolves(node, location)

\* Whether visit returns at a node without visiting its children.
Returns(node, location) ==
  node.kind \in {"TypeReference", "ImportType"} /\ ~Resolves(node, location)

\* A node and its descendants in pre-order, without the descendants of the
\* type references whose name does not resolve.
RECURSIVE NotUnderUnresolved(_, _)
RECURSIVE NotUnderUnresolvedOfEach(_, _)
NotUnderUnresolved(node, location) ==
  <<node>> \o (IF Unresolved(node, location) THEN <<>>
               ELSE NotUnderUnresolvedOfEach(ts_forEachChild(node), location))

NotUnderUnresolvedOfEach(children, location) ==
  IF children = <<>> THEN <<>>
  ELSE NotUnderUnresolved(Head(children), location)
         \o NotUnderUnresolvedOfEach(Tail(children), location)

\* A node and its descendants in pre-order, without the descendants of the
\* nodes visit returns at.
RECURSIVE Reached(_, _)
RECURSIVE ReachedOfEach(_, _)
Reached(node, location) ==
  <<node>> \o (IF Returns(node, location) THEN <<>>
               ELSE ReachedOfEach(ts_forEachChild(node), location))

ReachedOfEach(children, location) ==
  IF children = <<>> THEN <<>>
  ELSE Reached(Head(children), location) \o ReachedOfEach(Tail(children), location)

UnresolvedAmong(nodes, location) ==
  {i \in 1..Len(nodes) : Unresolved(nodes[i], location)}

SymbolDiagnostics ==
  {k \in 1..Len(Appended) :
     Appended[k].message \in {CouldNotGetSymbol(n) : n \in {"", "Foo", "Gone", "Other"}}}

\* C16: each type reference of the tree whose root name has no symbol in scope
\* has exactly one diagnostic appended and contributes no Reference, and the
\* walk goes on: every node that is not a descendant of such a type reference
\* is processed, the references returned being those of the resolvable ones
\* among them in depth-first pre-order, repeated names repeated.
C16_UnresolvedSkippedWalkContinues ==
  call.op = "getReferencesForTypeNode"
    => /\ Cardinality(SymbolDiagnostics)
            = Cardinality(UnresolvedAmong(Descendants(source.typeNode), source.location))
       /\ call.result
            = ReferencesAmong(NotUnderUnresolved(source.typeNode, source.location),
                              source.location)

\* What the walk does as the code is: the nodes not below a node visit returns
\* at are processed in pre-order, one diagnostic for each unresolved type
\* reference among them, one Reference for each resolvable one.
ReachedNodesProcessed ==
  call.op = "getReferencesForTypeNode"
    => /\ Cardinality(SymbolDiagnostics)
            = Cardinality(UnresolvedAmong(Reached(source.typeNode, source.location),
                                          source.location))
       /\ call.result
            = ReferencesAmong(Reached(source.typeNode, source.location), source.location)


\* The expression of the only type of the first extends clause.
OnlyExtendsExpression == FirstExtendsClause.types[1].expression

\* C18: an extends clause with exactly one type expression: for an identifier
\* getHeritage returns the Reference getReferenceForIdentifier resolved and
\* appends nothing beyond what that lookup appended; for any other expression
\* it appends exactly one Warning diagnostic of code UNSUPPORTED and the
\* superclass is absent.  The mixins are empty for every declaration.
C18_SingleExtendsExpression ==
  call.op = "getHeritage"
    => /\ (ExtendsClauses # {} /\ Len(FirstExtendsClause.types) = 1)
            => IF OnlyExtendsExpression.kind = "Identifier"
               THEN /\ call.result.superClass
                         = getReferenceForIdentifier(OnlyExtendsExpression).reference
                    /\ Appended = getReferenceForIdentifier(OnlyExtendsExpression).diagnostics
                    /\ \A k \in 1..Len(Appended) : Appended[k].code # "UNSUPPORTED"
               ELSE /\ call.result.superClass = Undefined
                    /\ Len(Appended) = 1
                    /\ Appended[1].category = "Warning"
                    /\ Appended[1].code = "UNSUPPORTED"
       /\ call.result.mixins = <<>>
       /\ SubSeq(diagnostics, 1, Len(call.before)) = call.before

\* class X extends Mixin(Base) {}
C18_Witness ==
  /\ call.op = "getHeritage"
  /\ ExtendsClauses # {}
  /\ Len(FirstExtendsClause.types) = 1
  /\ OnlyExtendsExpression.kind = "CallExpression"
  /\ Len(Appended) = 1
  /\ Appended[1].code = "UNSUPPORTED"
  /\ call.result = [superClass |-> Undefined, mixins |-> <<>>]


(***************************************************************************)
(* Inputs of getSpecifierFromTypeImport: specifiers naming a module file,  *)
(* below the root directory of a package or relative, through at most      *)
(* MaxPathSegments directory segments.                                     *)
(***************************************************************************)

MaxPathSegments == 2

DirectorySegments == {"lib", "d", ".", ".."}

FileNames == {"index.js", "main.js", "x.js", "index", "x"}

FilePaths == {d \o <<f>> : d \in SeqsUpTo(DirectorySegments, MaxPathSegments), f \in FileNames}

Specifiers ==
  {info.rootDir \o f : info \in PackageInfos, f \in FilePaths}
    \cup {r \o f : r \in {<<>>, <<".">>, <<"..">>}, f \in FilePaths}

\* The paths getSpecifierFromTypeImport hands to getPackageInfo.
getPackageInfoCalls(specifier) ==
  IF isAbsolute(normalize(resolveExtension(specifier)))
  THEN {normalize(resolveExtension(specifier))}
  ELSE {}

InitSpecifier ==
  /\ source \in [specifier : Specifiers]
  /\ diagnostics \in PriorDiagnostics
  /\ contents = <<>>
  /\ contentsId = 0
  /\ service = [version |-> -1, sourceFile |-> Undefined]
  /\ held = Undefined
  /\ call = NoCall

GetSpecifierFromTypeImport ==
  /\ call = NoCall
  /\ call' = [op |-> "getSpecifierFromTypeImport", before |-> diagnostics,
              getPackageInfo |-> getPackageInfoCalls(source.specifier),
              result |-> getSpecifierFromTypeImport(source.specifier)]
  /\ UNCHANGED <<source, diagnostics, scratchVars, held>>

NextSpecifier == GetSpecifierFromTypeImport

SpecSpecifier == InitSpecifier /\ [][NextSpecifier]_vars

\* The specifier after extension resolution and normalization.
ResolvedSpecifier == normalize(resolveExtension(source.specifier))

\* The package whose root directory is the nearest at or above the specifier.
NearestPackage ==
  CHOOSE info \in PackageInfos :
    /\ IsPathPrefix(info.rootDir, ResolvedSpecifier)
    /\ \A other \in PackageInfos :
         IsPathPrefix(other.rootDir, ResolvedSpecifier)
           => Len(other.rootDir) <= Len(info.rootDir)

PackageRelativePath ==
  SubSeq(ResolvedSpecifier, Len(NearestPackage.rootDir) + 1, Len(ResolvedSpecifier))

\* The manifest's module field when present, otherwise main.
PrimaryEntry ==
  IF NearestPackage.packageJson.module.defined
  THEN NearestPackage.packageJson.module
  ELSE NearestPackage.packageJson.main

MaxAnalysed == 2

AnalysisInputs ==
  {[members |-> b] : b \in BodyShapes}
    \cup {[heritageClauses |-> h.heritageClauses] : h \in HeritageShapes}
    \cup {[nodes |-> p, node |-> Analysed] :
            p \in {q \in DeclarationPrograms :
                     /\ q[Base] = Declaration("ClassDeclaration", Some("Base"), <<>>, <<>>, <<>>)
                     /\ q[Analysed].name = Some("C")
                     /\ q[Analysed].modifiers = {"export"}
                     /\ q[Analysed].parentChildren = <<>>
                     /\ q[Analysed].jsDocTags # <<JSDocTag("slot", StringComment(<<"a">>))>>
                     /\ ~q[Analysed].litElement
                     /\ Len(q[Analysed].members) <= 1
                     /\ \/ ~q[Analysed].heritageClauses.defined
                        \/ q[Analysed].baseTypes # <<ClassType(Base)>>}}
    \cup {[type |-> t, location |-> l] :
            t \in {c \in CheckerTypes :
                     \/ ~c.baseTypeOfLiteralType.typeToTypeNode.defined
                     \/ c.baseTypeOfLiteralType.typeToTypeNode.value \in LeafTypeNodes},
            l \in {l \in Locations : l.id = 1}}
    \cup {[typeNode |-> n, location |-> l] : n \in LeafTypeNodes, l \in Locations}
    \cup {[typeString |-> t, location |-> l] :
            t \in {Undefined} \cup {Some(t) : t \in {t \in TypeStrings : Len(t) <= 1}},
            l \in {l \in Locations : l.id = 1}}

InitPass ==
  /\ source \in {input @@ [models |-> <<>>] : input \in AnalysisInputs}
  /\ InitAnalyzer

\* getTypeForTypeString on the type string of the input.
ResolveTypeString ==
  /\ call = NoCall
  /\ LET r == getTypeForTypeString(source.typeString, source.location, Scratch)
     IN /\ contents' = r.scratch.contents
        /\ contentsId' = r.scratch.contentsId
        /\ service' = r.scratch.service
        /\ diagnostics' = diagnostics \o r.diagnostics
        /\ call' = [op |-> "getTypeForTypeString", before |-> diagnostics,
                    typeString |-> source.typeString, location |-> source.location,
                    result |-> r.type]
  /\ UNCHANGED <<source, held>>

\* The analysis goes on to its next input; the model just produced is kept.
AnalyseNext ==
  /\ call # NoCall
  /\ Len(source.models) + 1 < MaxAnalysed
  /\ \E input \in AnalysisInputs :
       source' = input @@ [models |-> Append(source.models, call.result)]
  /\ held' = Undefined
  /\ call' = NoCall
  /\ UNCHANGED <<diagnostics, scratchVars>>

PassMembers == "members" \in DOMAIN source /\ GetClassMembers

PassHeritage == "heritageClauses" \in DOMAIN source /\ GetHeritage

PassDeclaration ==
  /\ "nodes" \in DOMAIN source
  /\ (GetClassDeclarationInfo \/ Factory \/ GetClassDeclaration \/ ReadHeritage)

PassTypeForType == "type" \in DOMAIN source /\ (GetTypeForType \/ InvokeGetReferences)

PassReferences == "typeNode" \in DOMAIN source /\ GetReferencesForTypeNode

PassTypeString == "typeString" \in DOMAIN source /\ ResolveTypeString

NextPass ==
  \/ PassMembers
  \/ PassHeritage
  \/ PassDeclaration
  \/ PassTypeForType
  \/ PassReferences
  \/ PassTypeString
  \/ AnalyseNext

SpecPass == InitPass /\ [][NextPass]_vars

C20_ModelCarriesNameAndDocNode ==
  (call.op = "getClassDeclaration"
     /\ call.result.kind \in {"CustomElementDeclaration", "ClassDeclaration"})
    => /\ call.result.name = call.name
       /\ call.docNode.defined
            => call.result.description = call.docNode.value.doc.description

\* export default class extends HTMLElement {}: built by the custom-element
\* builder with the name getClassDeclarationInfo computed.
C20_UnnamedDefaultElementBuilt ==
  /\ call.op = "getClassDeclaration"
  /\ ~AnalysedClass.name.defined
  /\ call.name = "default"
  /\ call.result.kind = "CustomElementDeclaration"
  /\ call.result.name = ""


(***************************************************************************)
(* Inputs of isCustomElementSubclass on base-type graphs of any shape: the *)
(* base type of a class may be any class of the program, itself included.  *)
(***************************************************************************)

\* The base types the checker may report for a class of a program of k classes.
AnyBaseTypeLists(k) ==
  {<<>>, <<HTMLElementType>>, <<OtherType>>} \cup {<<ClassType(j)>> : j \in 1..k}

GraphPrograms(k) ==
  { [i \in AmbientIds \cup (1..k) |->
       IF i \in AmbientIds THEN AmbientNodes[i]
       ELSE Declaration("ClassDeclaration", Some("C"), c[i].tag.jsDocTags,
                        c[i].tag.parentChildren, c[i].baseTypes)] :
      c \in [1..k -> [tag : TagShapes, baseTypes : AnyBaseTypeLists(k)]] }

InitGraph ==
  /\ source \in [nodes : GraphPrograms(MaxClasses), node : AmbientIds \cup (1..MaxClasses)]
  /\ InitAnalyzer

SpecGraph == InitGraph /\ [][NextSubclass]_vars

\* The classes reached from n through base types in at most k steps.
RECURSIVE ReachedWithin(_, _, _)
ReachedWithin(nodes, n, k) ==
  IF k = 0 THEN {}
  ELSE BaseDeclarations(nodes, n)
         \cup UNION {ReachedWithin(nodes, d, k - 1) : d \in BaseDeclarations(nodes, n)}

\* n lies on a cycle of classes without tag names none of which reaches HTMLElement.
OnPlainCycle(nodes, n) ==
  /\ isClassLike(nodes[n])
  /\ n \in ReachedWithin(nodes, n, MaxClasses)
  /\ \A d \in {n} \cup ReachedWithin(nodes, n, MaxClasses) :
       /\ isClassLike(nodes[d])
       /\ HasNoTagName(nodes, d)

C21_CycleNeverLeft ==
  /\ call.op = "isCustomElementSubclass"
  /\ source.node = 1
  /\ source.nodes[1].baseTypes = <<ClassType(2)>>
  /\ source.nodes[2].baseTypes = <<ClassType(1)>>
  /\ OnPlainCycle(source.nodes, source.node)
  /\ call.result = "RangeError"

====
